---- MODULE Spec2Model ----
(***************************************************************************)
(* Model of the rule-based ticket classifier of the sentiment-analysis     *)
(* project: sentiment_engine.analyze_sentiment and utils.build_thread_text.*)
(*                                                                         *)
(* Python str values are TLA+ strings; TLC evaluates Len, \o, SubSeq, Head *)
(* and Tail on them, so keyword matching, lower-casing, the regular        *)
(* expression split and strip() are computed character by character.       *)
(* utils.extract_fresh_message and utils.extract_full_text are modelled    *)
(* the same way, pattern by pattern.                                       *)
(* Scores are kept in hundredths (0.80 is 80, -0.75 is -75).               *)
(***************************************************************************)
EXTENDS Integers, Sequences, FiniteSets, TLC

VARIABLES
    pc,            \* position of the caller: "call", "built", "done"
    inbound_list,  \* main.py: the turns handed to build_thread_text
    text,          \* the value handed to analyze_sentiment
    res,           \* the record analyze_sentiment returned (NoResult before)
    raised,        \* the exception that escaped the call ("none" when none did)
    content,       \* utils: the raw content of a thread, a str or None
    fresh,         \* utils: extract_fresh_message(content), None before the call
    fresh_again,   \* utils: extract_fresh_message(fresh), None before the call
    full,          \* utils: extract_full_text(content), None before the call
    recased,       \* the text with letters changed to their other case
    res_recased,   \* the record analyze_sentiment returned for recased
    thread_list,   \* zoho_client: the thread list of a ticket, as the API gave it
    contact_name,  \* main.py, zoho_client: the contact name of the row
    ti,            \* zoho_client: threads of thread_list["data"] gone through
    inbound,       \* zoho_client: the local list inbound
    outbound,      \* zoho_client: the local list outbound
    outbound_list, \* main.py: the second list extract_full_threads returned
    input_rows,    \* main.py: the rows of the input file, as loaded
    df,            \* main.py: the rows of the data frame
    index,         \* main.py: rows the loop has gone through
    processed_count, \* main.py: processed_count
    calls,         \* main.py: per row, the calls made on the Zoho client
    saved,         \* main.py: what df.to_excel last wrote to the output file
    events,        \* main.py: per row, what happened in its turn of the loop
    access_token,  \* zoho_client: self.access_token
    token_expiry,  \* zoho_client: self.token_expiry against the clock
    issued,        \* zoho_client: tokens the accounts server has issued
    log,           \* zoho_client: the requests of the last call of zoho_get
    result,        \* zoho_client: what the last call of zoho_get produced
    ncalls,        \* zoho_client: calls of zoho_get made
    session,       \* dashboard: st.session_state
    rerun,         \* dashboard: st.rerun() was called, the script runs again
    screen,        \* dashboard: what the last run of the script put on the page
    last_run,      \* dashboard: the event, the login and the data of the last run
    excel_file     \* dashboard: the Excel file as load_excel_data would find it

engineVars == <<inbound_list, text, res, raised>>
utilsVars == <<content, fresh, fresh_again, full>>
caseVars == <<recased, res_recased>>
zohoVars == <<thread_list, contact_name, ti, inbound, outbound, outbound_list>>
mainVars == <<input_rows, df, index, processed_count, calls, saved, events>>

clientVars == <<access_token, token_expiry, issued, log, result, ncalls>>
dashVars == <<session, rerun, screen, last_run, excel_file>>

vars == <<pc, engineVars, utilsVars, caseVars, zohoVars, mainVars, clientVars, dashVars>>

(* The variables a specification of one part leaves alone.                 *)
notEngineVars == <<utilsVars, caseVars, zohoVars, mainVars, clientVars, dashVars>>
notUtilsVars == <<engineVars, caseVars, zohoVars, mainVars, clientVars, dashVars>>

----------------------------------------------------------------------------
(* Python values.  A value is a record: type, s (payload of a str) and n   *)
(* (payload of an int or bool).                                            *)

PyStr(s) == [type |-> "str", s |-> s, n |-> 0]
PyNone == [type |-> "NoneType", s |-> "", n |-> 0]
PyNaN == [type |-> "float", s |-> "", n |-> 0]
PyInt(n) == [type |-> "int", s |-> "", n |-> n]
PyBool(b) == [type |-> "bool", s |-> "", n |-> IF b THEN 1 ELSE 0]

(* What a call produces before it is made.                                 *)
NoResult == [none |-> TRUE]

(* The variables of each part, while a specification does not use it.      *)
UtilsIdle == content = PyNone /\ fresh = PyNone /\ fresh_again = PyNone /\ full = PyNone

CaseIdle == recased = PyNone /\ res_recased = NoResult

NoThreads == [has_data |-> FALSE, data |-> <<>>]

ZohoIdle ==
    /\ thread_list = NoThreads
    /\ contact_name = ""
    /\ ti = 0
    /\ inbound = <<>>
    /\ outbound = <<>>
    /\ outbound_list = <<>>

NoFile == [written |-> FALSE, rows |-> <<>>]

MainIdle ==
    /\ input_rows = <<>>
    /\ df = <<>>
    /\ index = 0
    /\ processed_count = 0
    /\ calls = <<>>
    /\ saved = NoFile
    /\ events = <<>>

(* A client that has made no call: no token, no expiry.                    *)
ClientIdle ==
    /\ access_token = PyNone
    /\ token_expiry = "none"
    /\ issued = 0
    /\ log = <<>>
    /\ result = NoResult
    /\ ncalls = 0

(* A browser session in which the script has not run.                      *)
NoSession == [logged |-> "absent", user |-> "absent", role |-> "absent",
              df |-> "absent", page |-> "absent"]

(* What one run of the script got and did: the event that started it, the  *)
(* credentials submitted, the answer of authenticate, whether the Excel    *)
(* file was read, and the page shown.                                      *)
RunOf(event, username, password, auth, loaded, rendered) ==
    [event |-> event, username |-> username, password |-> password,
     auth |-> auth, loaded |-> loaded, rendered |-> rendered]

NoRun == RunOf("none", "", "", "none", FALSE, "none")

DashIdle ==
    /\ session = NoSession
    /\ rerun = FALSE
    /\ screen = "none"
    /\ last_run = NoRun
    /\ excel_file = "missing"

EngineIdle == inbound_list = <<>> /\ text = PyStr("") /\ res = NoResult /\ raised = "none"

NotEngineIdle == UtilsIdle /\ CaseIdle /\ ZohoIdle /\ MainIdle /\ ClientIdle /\ DashIdle

isinstance_str(v) == v.type = "str"

DigitChar(d) == SubSeq("0123456789", d + 1, d + 1)

RECURSIVE NatToStr(_)
NatToStr(n) == IF n < 10 THEN DigitChar(n) ELSE NatToStr(n \div 10) \o DigitChar(n % 10)

IntToStr(n) == IF n < 0 THEN "-" \o NatToStr(-n) ELSE NatToStr(n)

(* str(x) of a value that is not a str *)
str(v) ==
    CASE v.type = "str" -> v.s
      [] v.type = "NoneType" -> "None"
      [] v.type = "float" -> "nan"
      [] v.type = "bool" -> (IF v.n = 1 THEN "True" ELSE "False")
      [] v.type = "int" -> IntToStr(v.n)

----------------------------------------------------------------------------
(* Characters and the str methods the engine uses.                         *)

CharAt(s, i) == SubSeq(s, i, i)

(* The element of a set of one element: a value that a later step works on *)
(* is bound as the element of the set that holds it.                       *)
The(S) == CHOOSE x \in S : TRUE

(* The least element of a set of indices, 0 for the empty set.             *)
LeastOr0(S) == IF S = {} THEN 0 ELSE CHOOSE x \in S : \A y \in S : x <= y

UpperLetters == "ABCDEFGHIJKLMNOPQRSTUVWXYZ"
LowerLetters == "abcdefghijklmnopqrstuvwxyz"

(* str.lower() on one character: a capital letter becomes its small        *)
(* letter, every other character of the alphabet used here is unchanged.   *)
LowerOf == [c \in {CharAt(UpperLetters, i) : i \in 1..26} |->
               CharAt(LowerLetters, CHOOSE i \in 1..26 : CharAt(UpperLetters, i) = c)]

LowerChar(c) == IF c \in DOMAIN LowerOf THEN LowerOf[c] ELSE c

(* Mutant: the text is not lower-cased.                                    *)
lower_unchanged(s) == s

(* str.lower(): every character by LowerChar, the two halves of the text   *)
(* one after the other.                                                    *)
RECURSIVE lower(_)
lower(s) ==
    IF Len(s) <= 1 THEN LowerChar(s)
    ELSE LET half == Len(s) \div 2
         IN  lower(SubSeq(s, 1, half)) \o lower(SubSeq(s, half + 1, Len(s)))

IsSpace(c) == c \in {" ", "\n", "\t", "\r"}
IsDigit(c) == c \in {"0", "1", "2", "3", "4", "5", "6", "7", "8", "9"}

RECURSIVE lstrip(_)
lstrip(s) == IF s # "" /\ IsSpace(Head(s)) THEN lstrip(Tail(s)) ELSE s

RECURSIVE rstrip(_)
rstrip(s) ==
    IF s # "" /\ IsSpace(CharAt(s, Len(s))) THEN rstrip(SubSeq(s, 1, Len(s) - 1)) ELSE s

strip(s) == rstrip(lstrip(s))

(* w in block *)
In(w, block) ==
    \E i \in 1..(Len(block) - Len(w) + 1) : SubSeq(block, i, i + Len(w) - 1) = w

----------------------------------------------------------------------------
(* re.split(r"thread\d+\s*-\s*", t)                                         *)

RECURSIVE SkipDigits(_, _)
SkipDigits(s, j) == IF j <= Len(s) /\ IsDigit(CharAt(s, j)) THEN SkipDigits(s, j + 1) ELSE j

RECURSIVE SkipSpaces(_, _)
SkipSpaces(s, j) == IF j <= Len(s) /\ IsSpace(CharAt(s, j)) THEN SkipSpaces(s, j + 1) ELSE j

(* The index of the last character of the match of thread\d+\s*-\s* that   *)
(* starts at index i of s, or 0 when no match starts there.  Every         *)
(* quantifier is greedy, and no shorter choice of \d+ or \s* can reach the *)
(* hyphen when the longest one does not.                                   *)
MarkerEnd(s, i) ==
    IF i + 5 > Len(s) \/ SubSeq(s, i, i + 5) # "thread" THEN 0
    ELSE LET d == SkipDigits(s, i + 6)
             h == SkipSpaces(s, d)
         IN  IF d = i + 6 \/ h > Len(s) \/ CharAt(s, h) # "-" THEN 0
             ELSE SkipSpaces(s, h + 1) - 1

(* re.split: the pieces between the leftmost non-overlapping matches,      *)
(* empty pieces included.                                                  *)
RECURSIVE SplitFrom(_, _)
SplitFrom(s, start) ==
    LET i == LeastOr0({k \in start..Len(s) : MarkerEnd(s, k) > 0})
    IN  IF i = 0 THEN <<SubSeq(s, start, Len(s))>>
        ELSE <<SubSeq(s, start, i - 1)>> \o SplitFrom(s, MarkerEnd(s, i) + 1)

re_split(s) == SplitFrom(s, 1)

HasMarker(s) == \E i \in 1..Len(s) : MarkerEnd(s, i) > 0

RECURSIVE StripAll(_)
StripAll(q) == IF q = <<>> THEN <<>> ELSE <<strip(Head(q))>> \o StripAll(Tail(q))

NonBlank(th) == strip(th) # ""

(* Mutant: the segments are filtered but not trimmed.                      *)
threads_untrimmed(t) == SelectSeq(re_split(t), NonBlank)

(* threads = re.split(...); threads = [th.strip() for th in threads if th.strip()] *)
threads(t) == StripAll(SelectSeq(re_split(t), NonBlank))

(* Mutant: the override looks at the whole text.                           *)
last_thread_whole(t) == t

(* Mutant: without threads the last thread is the empty string.            *)
last_thread_or_empty(t) ==
    LET ths == threads(t) IN IF ths # <<>> THEN ths[Len(ths)] ELSE ""

(* Mutant: the first thread is taken instead of the last.                  *)
last_thread_first(t) ==
    LET ths == threads(t) IN IF ths # <<>> THEN ths[1] ELSE t

(* last_thread = threads[-1] if threads else t *)
last_thread(t) ==
    LET ths == threads(t) IN IF ths # <<>> THEN ths[Len(ths)] ELSE t

----------------------------------------------------------------------------
(* The keyword lists of analyze_sentiment, in the order of the source.     *)

strong_positive ==
    << "wow! you just made our day", "made our day",
       "excellent", "thank you so much", "thanks a lot",
       "really appreciate", "great service", "amazing", "very happy" >>

resolution_words ==
    << "issue resolved", "problem resolved", "got it now",
       "i have received it", "now received", "received it now" >>

wrong_report_words ==
    << "someone else", "belongs to someone", "different person",
       "not my kundali", "wrong kundali", "incorrect kundali",
       "wrong chart", "this is not mine", "sent the wrong report", "yadav" >>

refund_words ==
    << "refund", "money back", "cancel", "cancel my order", "want refund",
       "waste of money", "not satisfied", "not happy", "bad service" >>

unresolved_words ==
    << "issue not resolved", "not resolved yet", "still not resolved",
       "cannot close the ticket", "ticket closed", "reopen the ticket", "not solved" >>

delay_words ==
    << "not received", "didnt receive", "didn't receive", "didnt get",
       "didn't get", "not got", "no report", "not attached",
       "no report attached", "report missing", "didnt recive",
       "recieve", "recive", "nahi mila", "kab milega",
       "waiting for report", "still waiting", "report not come",
       "report not came", "not delivered", "class recording not received",
       "class link not received", "didn't get class", "missed class" >>

correction_words ==
    << "wrong", "incorrect", "galat", "mistake", "dob", "birth time",
       "time of birth", "please correct", "update the time", "change my details" >>

language_words ==
    << "hindi me", "hindi mein", "send in hindi", "english nahi chahiye",
       "hindi chahiye", "want in hindi", "report in hindi" >>

fraud_words ==
    << "cheating", "fraud", "scam", "fake", "cheater",
       "are you guys cheating", "you are cheating" >>

(* any(w in block for w in words) *)
has(words, block) == \E k \in 1..Len(words) : In(words[k], block)

(* Mutant: one key of the returned dict is misspelt.                       *)
Outcome_misspelt(score, label, emotion, risk, category) ==
    [sentiment_score |-> score, sentiment |-> label, emotion |-> emotion,
     complaint_risk_level |-> risk, ticket_category |-> category]

(* The dict literal of a return statement.                                 *)
Outcome(score, label, emotion, risk, category) ==
    [sentiment_score |-> score, sentiment_label |-> label, emotion |-> emotion,
     complaint_risk_level |-> risk, ticket_category |-> category]

(* What a call produces: a returned record, or an exception that escapes.  *)
Return(r) == [raised |-> "none", value |-> r]
Raise(e) == [raised |-> e, value |-> NoResult]

(* Mutant: the default return is missing, the function falls off its end   *)
(* and returns None.                                                       *)
full_text_rules_no_default(t) ==
    IF has(wrong_report_words, t)
    THEN Outcome(-75, "Negative", "Angry", "High", "Wrong Report")
    ELSE IF has(refund_words, t)
    THEN Outcome(-75, "Negative", "Disappointed", "High", "Refund / Cancellation")
    ELSE IF has(unresolved_words, t)
    THEN Outcome(-65, "Negative", "Angry", "High", "Unresolved Issue")
    ELSE IF has(delay_words, t)
    THEN Outcome(-45, "Negative", "Frustrated", "Medium", "Service Delay / Not Delivered")
    ELSE IF has(correction_words, t)
    THEN Outcome(-25, "Neutral", "Concerned", "Low", "Correction Request")
    ELSE IF has(language_words, t)
    THEN Outcome(-20, "Neutral", "Concerned", "Low", "Language Issue")
    ELSE IF has(fraud_words, t)
    THEN Outcome(-85, "Negative", "Angry", "Critical", "Fraud Accusation")
    ELSE NoResult

(* Mutant: the delay rule is tested before the refund rule.                *)
full_text_rules_delay_first(t) ==
    IF has(wrong_report_words, t)
    THEN Outcome(-75, "Negative", "Angry", "High", "Wrong Report")
    ELSE IF has(delay_words, t)
    THEN Outcome(-45, "Negative", "Frustrated", "Medium", "Service Delay / Not Delivered")
    ELSE IF has(unresolved_words, t)
    THEN Outcome(-65, "Negative", "Angry", "High", "Unresolved Issue")
    ELSE IF has(refund_words, t)
    THEN Outcome(-75, "Negative", "Disappointed", "High", "Refund / Cancellation")
    ELSE IF has(correction_words, t)
    THEN Outcome(-25, "Neutral", "Concerned", "Low", "Correction Request")
    ELSE IF has(language_words, t)
    THEN Outcome(-20, "Neutral", "Concerned", "Low", "Language Issue")
    ELSE IF has(fraud_words, t)
    THEN Outcome(-85, "Negative", "Angry", "Critical", "Fraud Accusation")
    ELSE Outcome(0, "Neutral", "Neutral", "Low", "General Query")

(* Mutant: the fraud rule is tested inside the branch of the language      *)
(* rule, after that rule has returned.                                     *)
full_text_rules_fraud_shadowed(t) ==
    IF has(wrong_report_words, t)
    THEN Outcome(-75, "Negative", "Angry", "High", "Wrong Report")
    ELSE IF has(refund_words, t)
    THEN Outcome(-75, "Negative", "Disappointed", "High", "Refund / Cancellation")
    ELSE IF has(unresolved_words, t)
    THEN Outcome(-65, "Negative", "Angry", "High", "Unresolved Issue")
    ELSE IF has(delay_words, t)
    THEN Outcome(-45, "Negative", "Frustrated", "Medium", "Service Delay / Not Delivered")
    ELSE IF has(correction_words, t)
    THEN Outcome(-25, "Neutral", "Concerned", "Low", "Correction Request")
    ELSE IF has(language_words, t)
    THEN Outcome(-20, "Neutral", "Concerned", "Low", "Language Issue")
    ELSE Outcome(0, "Neutral", "Neutral", "Low", "General Query")

(* The if-chain over the whole lower-cased text t (wrong report to fraud), *)
(* and the default.                                                        *)
full_text_rules(t) ==
    IF has(wrong_report_words, t)
    THEN Outcome(-75, "Negative", "Angry", "High", "Wrong Report")
    ELSE IF has(refund_words, t)
    THEN Outcome(-75, "Negative", "Disappointed", "High", "Refund / Cancellation")
    ELSE IF has(unresolved_words, t)
    THEN Outcome(-65, "Negative", "Angry", "High", "Unresolved Issue")
    ELSE IF has(delay_words, t)
    THEN Outcome(-45, "Negative", "Frustrated", "Medium", "Service Delay / Not Delivered")
    ELSE IF has(correction_words, t)
    THEN Outcome(-25, "Neutral", "Concerned", "Low", "Correction Request")
    ELSE IF has(language_words, t)
    THEN Outcome(-20, "Neutral", "Concerned", "Low", "Language Issue")
    ELSE IF has(fraud_words, t)
    THEN Outcome(-85, "Negative", "Angry", "Critical", "Fraud Accusation")
    ELSE Outcome(0, "Neutral", "Neutral", "Low", "General Query")

(* Mutant: the resolution override is tested after the complaint rules.    *)
rules_resolved_late(t, last) ==
    IF has(strong_positive, last)
    THEN Outcome(80, "Positive", "Joy", "Low", "Appreciation")
    ELSE IF full_text_rules(t) # Outcome(0, "Neutral", "Neutral", "Low", "General Query")
    THEN full_text_rules(t)
    ELSE IF has(resolution_words, last)
    THEN Outcome(50, "Positive", "Satisfied", "Low", "Resolved")
    ELSE Outcome(0, "Neutral", "Neutral", "Low", "General Query")

(* The if-chain of analyze_sentiment: the final-thread positive override   *)
(* on the last thread, then the rules over the whole text.                 *)
rules(t, last) ==
    IF has(strong_positive, last)
    THEN Outcome(80, "Positive", "Joy", "Low", "Appreciation")
    ELSE IF has(resolution_words, last)
    THEN Outcome(50, "Positive", "Satisfied", "Low", "Resolved")
    ELSE full_text_rules(t)

(* Mutant: the isinstance guard is missing.                                *)
coerce_missing(v) == v

(* if not isinstance(text, str): text = str(text) *)
coerce(v) == IF ~isinstance_str(v) THEN PyStr(str(v)) ELSE v

(* analyze_sentiment(text).  text.lower() exists on a str only: on any     *)
(* other value the attribute lookup raises AttributeError.                 *)
analyze_sentiment(v) ==
    LET txt == coerce(v)
    IN  IF txt.type # "str" THEN Raise("AttributeError")
        ELSE The({ Return(rules(t, last_thread(t))) : t \in { lower(txt.s) } })

----------------------------------------------------------------------------
(* utils.build_thread_text                                                 *)

RECURSIVE JoinFrom(_, _)
JoinFrom(turns, idx) ==
    IF idx > Len(turns) THEN ""
    ELSE (IF idx > 1 THEN "\n\n" ELSE "")
         \o "Thread" \o NatToStr(idx) \o "- " \o turns[idx]
         \o JoinFrom(turns, idx + 1)

(* Mutant: every rendered turn is followed by the separator, the last too. *)
build_thread_text_trailing(turns) ==
    IF turns = <<>> THEN "" ELSE JoinFrom(turns, 1) \o "\n\n"

build_thread_text(turns) == IF turns = <<>> THEN "" ELSE JoinFrom(turns, 1)

----------------------------------------------------------------------------
(* utils.extract_fresh_message and utils.extract_full_text.                *)

(* "not text": None, the empty str, 0 and False are falsy.                 *)
Falsy(v) ==
    \/ v.type = "NoneType"
    \/ v.type = "str" /\ v.s = ""
    \/ v.type \in {"int", "bool"} /\ v.n = 0

(* The literal lit stands at index i of s, letters of either case          *)
(* (re.IGNORECASE).                                                        *)
LitAt(s, i, lit) ==
    /\ i >= 1
    /\ i + Len(lit) - 1 <= Len(s)
    /\ lower(SubSeq(s, i, i + Len(lit) - 1)) = lower(lit)

(* The literal lit stands at index i of s, letter for letter.              *)
ExactAt(s, i, lit) ==
    /\ i + Len(lit) - 1 <= Len(s)
    /\ SubSeq(s, i, i + Len(lit) - 1) = lit

(* The least index from i on where the literal stands, 0 when nowhere.     *)
FindLit(s, i, lit) == LeastOr0({k \in i..Len(s) : LitAt(s, k, lit)})

(* html.unescape on the named references amp, lt and gt, with or without   *)
(* their semicolon; one pass from left to right, the replacement is not    *)
(* scanned again.  Any other "&" is kept.                                  *)
EntityNames == << "amp", "lt", "gt" >>
EntityChars == << "&", "<", ">" >>

EntityAt(s, i) ==
    IF CharAt(s, i) # "&" THEN 0
    ELSE IF ExactAt(s, i + 1, "amp") THEN 1
    ELSE IF ExactAt(s, i + 1, "lt") THEN 2
    ELSE IF ExactAt(s, i + 1, "gt") THEN 3
    ELSE 0

RECURSIVE html_unescape(_)
html_unescape(s) ==
    LET i == LeastOr0({k \in 1..Len(s) : EntityAt(s, k) > 0})
    IN  IF i = 0 THEN s
        ELSE LET e == EntityAt(s, i)
                 after == i + 1 + Len(EntityNames[e])
                 next == IF ExactAt(s, after, ";") THEN after + 1 ELSE after
             IN  SubSeq(s, 1, i - 1) \o EntityChars[e]
                     \o html_unescape(SubSeq(s, next, Len(s)))

(* The index of the last character of the match of (?is)<name.*?>.*?</name> *)
(* that starts at index i, or 0: the opening "<name", the first ">" after  *)
(* it, the first "</name>" after that ">".                                 *)
BlockEnd(s, i, name) ==
    IF ~LitAt(s, i, "<" \o name) THEN 0
    ELSE LET gt == FindLit(s, i + 1 + Len(name), ">")
         IN  IF gt = 0 THEN 0
             ELSE LET close == FindLit(s, gt + 1, "</" \o name \o ">")
                  IN  IF close = 0 THEN 0 ELSE close + Len(name) + 2

(* re.sub(r"(?is)<name.*?>.*?</name>", " ", text) *)
RECURSIVE sub_block(_, _)
sub_block(s, name) ==
    LET i == LeastOr0({k \in 1..Len(s) : BlockEnd(s, k, name) > 0})
    IN  IF i = 0 THEN s
        ELSE SubSeq(s, 1, i - 1) \o " "
                 \o sub_block(SubSeq(s, BlockEnd(s, i, name) + 1, Len(s)), name)

(* The index of the last character of the match of <[^>]+> that starts at  *)
(* index i, or 0: "<", a character that is not ">", and the first ">"      *)
(* after it.                                                               *)
TagEnd(s, i) ==
    IF CharAt(s, i) # "<" \/ i + 1 > Len(s) \/ CharAt(s, i + 1) = ">" THEN 0
    ELSE FindLit(s, i + 2, ">")

(* re.sub(r"<[^>]+>", " ", text) *)
RECURSIVE sub_tags(_)
sub_tags(s) ==
    LET i == LeastOr0({k \in 1..Len(s) : TagEnd(s, k) > 0})
    IN  IF i = 0 THEN s
        ELSE SubSeq(s, 1, i - 1) \o " " \o sub_tags(SubSeq(s, TagEnd(s, i) + 1, Len(s)))

(* \w and \b: index i holds a word character, and a word starts there.     *)
IsWord(c) == c = "_" \/ IsDigit(c) \/ lower(c) \in {CharAt(LowerLetters, k) : k \in 1..26}

WordStart(s, i) == i = 1 \/ ~IsWord(CharAt(s, i - 1))

(* The words stand from index i on, \s+ between consecutive words.         *)
RECURSIVE WordsAt(_, _, _)
WordsAt(s, i, words) ==
    /\ LitAt(s, i, Head(words))
    /\ \/ Len(words) = 1
       \/ LET sp == i + Len(Head(words))
          IN  /\ sp <= Len(s)
              /\ IsSpace(CharAt(s, sp))
              /\ WordsAt(s, SkipSpaces(s, sp), Tail(words))

(* The patterns of the two lists.  kind "on_wrote" is \bOn\s+.*?wrote\s*:, *)
(* "header" is \b<lit>\s+.*, "literal" is the literal itself, "quoted" is  *)
(* >\s*wrote:, and "words" is (?i)<word>\s+<word>...  followed by .*       *)
OnWrote == [kind |-> "on_wrote", lit |-> "On", words |-> <<>>]
Header(h) == [kind |-> "header", lit |-> h, words |-> <<>>]
Literal(l) == [kind |-> "literal", lit |-> l, words |-> <<>>]
Quoted == [kind |-> "quoted", lit |-> ">", words |-> <<>>]
Words(ws) == [kind |-> "words", lit |-> "", words |-> ws]

reply_patterns ==
    << OnWrote, Header("From:"), Header("Sent:"), Header("To:"), Header("Subject:"),
       Literal("-----Original Message-----"), Literal("---- Forwarded message ----"),
       Quoted >>

footer_patterns ==
    << Words(<<"thanks">>), Words(<<"warm", "regards">>), Words(<<"regards">>),
       Words(<<"team", "astro">>), Words(<<"astro", "arun", "pandit">>),
       Words(<<"customer", "support">>) >>

(* "wrote", white space or none, and a colon, from index k on.             *)
WroteColonAt(s, k) ==
    /\ LitAt(s, k, "wrote")
    /\ LET c == SkipSpaces(s, k + 5) IN c <= Len(s) /\ CharAt(s, c) = ":"

(* A match of pattern p starts at index i of s.  re.DOTALL lets .*? run    *)
(* over newlines, and a trailing .* matches whatever follows.              *)
MatchesAt(p, s, i) ==
    CASE p.kind = "on_wrote" ->
            /\ WordStart(s, i)
            /\ LitAt(s, i, p.lit)
            /\ i + 2 <= Len(s)
            /\ IsSpace(CharAt(s, i + 2))
            /\ \E k \in (i + 3)..Len(s) : WroteColonAt(s, k)
      [] p.kind = "header" ->
            /\ WordStart(s, i)
            /\ LitAt(s, i, p.lit)
            /\ i + Len(p.lit) <= Len(s)
            /\ IsSpace(CharAt(s, i + Len(p.lit)))
      [] p.kind = "literal" -> LitAt(s, i, p.lit)
      [] p.kind = "quoted" ->
            /\ CharAt(s, i) = ">"
            /\ LitAt(s, SkipSpaces(s, i + 1), "wrote:")
      [] p.kind = "words" -> WordsAt(s, i, p.words)

(* The start of the leftmost match of p in s, 0 when p does not match.     *)
FirstMatch(p, s) == LeastOr0({i \in 1..Len(s) : MatchesAt(p, s, i)})

(* Mutant: the text is cut at the last match instead of the first.         *)
split_head_at_last(p, s) ==
    LET ms == {i \in 1..Len(s) : MatchesAt(p, s, i)}
    IN  IF ms = {} THEN s ELSE SubSeq(s, 1, (CHOOSE x \in ms : \A y \in ms : y <= x) - 1)

(* re.split(p, text)[0] *)
split_head(p, s) ==
    LET i == FirstMatch(p, s) IN IF i = 0 THEN s ELSE SubSeq(s, 1, i - 1)

(* Mutant: the last pattern of the list is not applied.                    *)
RECURSIVE cut_each_but_last(_, _)
cut_each_but_last(patterns, s) ==
    IF Len(patterns) <= 1 THEN s
    ELSE cut_each_but_last(Tail(patterns), split_head(Head(patterns), s))

(* for p in patterns: text = re.split(p, text)[0] *)
RECURSIVE cut_each(_, _)
cut_each(patterns, s) ==
    IF patterns = <<>> THEN s
    ELSE The({ cut_each(Tail(patterns), head) : head \in { split_head(Head(patterns), s) } })

(* re.sub(r"\s+", " ", text) *)
RECURSIVE collapse(_)
collapse(s) ==
    LET i == LeastOr0({k \in 1..Len(s) : IsSpace(CharAt(s, k))})
    IN  IF i = 0 THEN s
        ELSE SubSeq(s, 1, i - 1) \o " " \o collapse(SubSeq(s, SkipSpaces(s, i), Len(s)))

(* Mutant: the entities are decoded after the tags are removed.            *)
untagged_decode_last(s) == html_unescape(sub_tags(sub_block(sub_block(s, "style"), "script")))

(* The text of extract_fresh_message after the entities and the tags       *)
(* (lines 9-12).                                                           *)
untagged(s) ==
    The({ sub_tags(unscripted) :
             unscripted \in { sub_block(unstyled, "script") :
                 unstyled \in { sub_block(decoded, "style") :
                     decoded \in { html_unescape(s) } } } })

(* extract_fresh_message(text), for a str or None.                         *)
extract_fresh_message(v) ==
    IF Falsy(v) THEN ""
    ELSE The({ strip(collapse(fresh_part)) :
                  fresh_part \in { cut_each(footer_patterns, unquoted) :
                      unquoted \in { cut_each(reply_patterns, plain) :
                          plain \in { untagged(v.s) } } } })

(* Mutant: the full text is cut like the fresh message.                    *)
extract_full_text_cut(v) == extract_fresh_message(v)

(* extract_full_text(text), for a str or None.                             *)
extract_full_text(v) ==
    IF Falsy(v) THEN ""
    ELSE The({ strip(collapse(plain)) :
                  plain \in { sub_tags(decoded) : decoded \in { html_unescape(v.s) } } })

----------------------------------------------------------------------------
(* zoho_client.ZohoDeskClient.extract_full_threads                         *)

(* a or b *)
PyOr(a, b) == IF Falsy(a) THEN b ELSE a

(* What get_thread_full gives for one thread of the list: fetch is "error" *)
(* when the request or the decoding of its answer raises; content,         *)
(* description and body are the values under these keys (None when the key *)
(* is absent), author and createdBy the names under author.name and        *)
(* createdBy.name, or JsonNull where the answer holds null under author or *)
(* createdBy themselves.                                                   *)
Thread(fetch, c, d, b, a, cb) ==
    [fetch |-> fetch, content |-> c, description |-> d, body |-> b,
     author |-> a, createdBy |-> cb]

(* "author": null in the answer: full_thread.get("author", {}) is None and *)
(* None.get("name") raises AttributeError.                                 *)
JsonNull == [type |-> "null", s |-> "", n |-> 0]

(* The expression for author raises: a null under author, or, when the     *)
(* author's name is empty or absent, a null under createdBy.               *)
author_raises(t) ==
    \/ t.author = JsonNull
    \/ Falsy(t.author) /\ t.createdBy = JsonNull

(* content = full_thread.get("content") or ... or "" *)
ContentOf(t) == PyOr(PyOr(PyOr(t.content, t.description), t.body), PyStr(""))

(* author = full_thread.get("author", {}).get("name") or ... or "" *)
AuthorOf(t) == PyOr(PyOr(t.author, t.createdBy), PyStr("")).s

(* Mutant: the contact name is looked for in the author's name as written. *)
is_contact_exact(contact, author) == contact # "" /\ In(contact, author)

(* contact_name and contact_name.lower() in author.lower() *)
is_contact(contact, author) == contact # "" /\ In(lower(contact), lower(author))

(* if text and len(text) > 5: lst.append(text) *)
append_if_long(lst, txt) == IF txt # "" /\ Len(txt) > 5 THEN Append(lst, txt) ELSE lst

(* Mutant: the lists are returned in the order of the API.                 *)
Reversed_not(lst) == lst

(* lst[::-1] *)
Reversed(lst) == [k \in 1..Len(lst) |-> lst[Len(lst) + 1 - k]]

(* The body of the loop for thread t: the two lists after it.  An          *)
(* exception in the try block leaves both as they are.                     *)
route(t, contact, inb, outb) ==
    IF t.fetch = "error" \/ author_raises(t) THEN <<inb, outb>>
    ELSE IF is_contact(contact, AuthorOf(t))
    THEN <<append_if_long(inb, extract_fresh_message(ContentOf(t))), outb>>
    ELSE <<inb, append_if_long(outb, extract_full_text(ContentOf(t)))>>

RECURSIVE RouteFrom(_, _, _, _, _)
RouteFrom(data, k, contact, inb, outb) ==
    IF k > Len(data) THEN <<inb, outb>>
    ELSE The({ RouteFrom(data, k + 1, contact, r[1], r[2]) :
                  r \in { route(data[k], contact, inb, outb) } })

(* extract_full_threads(ticket_id, thread_list, contact_name), as one      *)
(* call: the pair (inbound, outbound) it returns.                          *)
extract_full_threads(tl, contact) ==
    IF ~tl.has_data THEN <<(<<>>), (<<>>)>>
    ELSE LET r == RouteFrom(tl.data, 1, contact, <<>>, <<>>)
         IN  <<Reversed(r[1]), Reversed(r[2])>>

----------------------------------------------------------------------------
(* zoho_client.ZohoDeskClient: the token and zoho_get.                     *)

(* The client: self.access_token, self.token_expiry against the clock      *)
(* ("none", "later" while datetime.now() < token_expiry, "passed" after),  *)
(* the tokens issued so far and the requests made.                         *)
Client(token, expiry, n, requests) ==
    [access_token |-> token, token_expiry |-> expiry, issued |-> n, log |-> requests]

(* A call that ends in the state st with the outcome out.                  *)
Ends(st, out) == [st |-> st, out |-> out]

Logged(st, entry) == [st EXCEPT !.log = Append(@, entry)]

(* generate_access_token(): g is what the accounts server does: "token"    *)
(* (the answer holds a new access_token), "no token" (the answer holds     *)
(* none, response.get gives None) or "raises" (the request or its decoding *)
(* raises before anything is stored).                                      *)
generate_access_token(st, g) ==
    LET asked == Logged(st, [ev |-> "regen", status |-> 0, body |-> ""])
    IN  IF g = "raises" THEN Ends(asked, Raise("RequestException"))
        ELSE IF g = "token"
        THEN LET token == PyStr("token" \o NatToStr(st.issued + 1))
             IN  Ends([asked EXCEPT !.access_token = token, !.token_expiry = "later",
                                    !.issued = st.issued + 1],
                      Return(token))
        ELSE Ends([asked EXCEPT !.access_token = PyNone, !.token_expiry = "later"],
                  Return(PyNone))

(* get_valid_token() *)
get_valid_token(st, g) ==
    IF st.access_token = PyNone \/ st.token_expiry = "none" \/ st.token_expiry = "passed"
    THEN generate_access_token(st, g)
    ELSE Ends(st, Return(st.access_token))

(* A response: its status code and its body; json tells whether the body   *)
(* decodes.  RequestFails stands for requests.get raising.                 *)
Response(status, json, body) == [status |-> status, json |-> json, body |-> body]

RequestFails == Response(0, FALSE, "")

(* requests.get(url, headers=headers) *)
requests_get(st, r) == Logged(st, [ev |-> "get", status |-> r.status, body |-> r.body])

(* response.json() *)
json_of(r) == IF r.json THEN Return(r.body) ELSE Raise("JSONDecodeError")

(* Mutant: the request is repeated after any error status.                 *)
zoho_get_retry_errors(st, g1, r1, g2, r2) ==
    LET v == get_valid_token(st, g1)
    IN  IF v.out.raised # "none" THEN v
        ELSE LET first == requests_get(v.st, r1)
             IN  IF r1 = RequestFails THEN Ends(first, Raise("RequestException"))
                 ELSE IF r1.status >= 400
                 THEN LET w == generate_access_token(first, g2)
                      IN  IF w.out.raised # "none" THEN w
                          ELSE LET second == requests_get(w.st, r2)
                               IN  IF r2 = RequestFails
                                   THEN Ends(second, Raise("RequestException"))
                                   ELSE Ends(second, json_of(r2))
                 ELSE Ends(first, json_of(r1))

(* zoho_get(url): g1 and r1 are what the accounts server and the desk      *)
(* server do at the first round, g2 and r2 at the second.                  *)
zoho_get(st, g1, r1, g2, r2) ==
    LET v == get_valid_token(st, g1)
    IN  IF v.out.raised # "none" THEN v
        ELSE LET first == requests_get(v.st, r1)
             IN  IF r1 = RequestFails THEN Ends(first, Raise("RequestException"))
                 ELSE IF r1.status = 401
                 THEN LET w == generate_access_token(first, g2)
                      IN  IF w.out.raised # "none" THEN w
                          ELSE LET second == requests_get(w.st, r2)
                               IN  IF r2 = RequestFails
                                   THEN Ends(second, Raise("RequestException"))
                                   ELSE Ends(second, json_of(r2))
                 ELSE Ends(first, json_of(r1))

----------------------------------------------------------------------------
(* main.main: the loop over the rows of the data frame.                    *)

(* A finite float, in hundredths (the sentiment score of a row).           *)
PyFloat(h) == [type |-> "float", s |-> "finite", n |-> h]

(* pd.notna(x) *)
notna(v) == v # PyNaN /\ v # PyNone

(* A row of the data frame: the ticket and contact columns and the eight   *)
(* columns of required_cols.                                               *)
Row(ticket, contact, inb, outb, score, label, emotion, risk, category, status) ==
    [ticket |-> ticket, contact |-> contact, inbound_thread |-> inb,
     outbound_thread |-> outb, sentiment_score |-> score, sentiment_label |-> label,
     emotion |-> emotion, complaint_risk_level |-> risk, ticket_category |-> category,
     processing_status |-> status]

(* Mutant: no row counts as processed.                                     *)
already_processed_never(row) == FALSE

(* pd.notna(row['processing_status']) and                                  *)
(* str(row['processing_status']).strip() != ""                             *)
already_processed(row) ==
    notna(row.processing_status) /\ strip(str(row.processing_status)) # ""

(* ticket_number = str(row[ticket_col]).strip() *)
ticket_number_of(row) == strip(str(row.ticket))

(* contact_name = str(row[contact_col]).strip() if contact_col and         *)
(* pd.notna(row[contact_col]) else ""                                      *)
contact_name_of(row) == IF notna(row.contact) THEN strip(str(row.contact)) ELSE ""

(* df.at[index, 'processing_status'] = status *)
with_status(row, status) == [row EXCEPT !.processing_status = PyStr(status)]

(* Mutant: the outbound text is classified instead of the inbound text.    *)
with_threads_outbound(row, inb_list, outb_list) ==
    The({ LET fetched == [row EXCEPT
                             !.inbound_thread = PyStr(inbound_text),
                             !.outbound_thread = PyStr(build_thread_text(outb_list))]
          IN  IF strip(inbound_text) # ""
              THEN The({ [fetched EXCEPT
                             !.sentiment_score = PyFloat(r.sentiment_score),
                             !.sentiment_label = PyStr(r.sentiment_label),
                             !.emotion = PyStr(r.emotion),
                             !.complaint_risk_level = PyStr(r.complaint_risk_level),
                             !.ticket_category = PyStr(r.ticket_category),
                             !.processing_status = PyStr("Completed")] :
                         r \in { analyze_sentiment(
                                     PyStr(build_thread_text(outb_list))).value } })
              ELSE with_status(fetched, "Completed - No Inbound") :
          inbound_text \in { build_thread_text(inb_list) } })

(* Mutant: without inbound text the status of the row is left as it is.    *)
with_threads_unmarked(row, inb_list, outb_list) ==
    IF strip(build_thread_text(inb_list)) # ""
    THEN with_status([row EXCEPT !.inbound_thread = PyStr(build_thread_text(inb_list))],
                     "Completed")
    ELSE [row EXCEPT !.inbound_thread = PyStr(build_thread_text(inb_list)),
                     !.outbound_thread = PyStr(build_thread_text(outb_list))]

(* Lines 76-95: the two thread columns, and the five sentiment columns     *)
(* and the status Completed when the inbound text is not blank, the status *)
(* "Completed - No Inbound" otherwise.                                     *)
with_threads(row, inb_list, outb_list) ==
    The({ LET fetched == [row EXCEPT
                             !.inbound_thread = PyStr(inbound_text),
                             !.outbound_thread = PyStr(build_thread_text(outb_list))]
          IN  IF strip(inbound_text) # ""
              THEN The({ [fetched EXCEPT
                             !.sentiment_score = PyFloat(r.sentiment_score),
                             !.sentiment_label = PyStr(r.sentiment_label),
                             !.emotion = PyStr(r.emotion),
                             !.complaint_risk_level = PyStr(r.complaint_risk_level),
                             !.ticket_category = PyStr(r.ticket_category),
                             !.processing_status = PyStr("Completed")] :
                         r \in { analyze_sentiment(PyStr(inbound_text)).value } })
              ELSE with_status(fetched, "Completed - No Inbound") :
          inbound_text \in { build_thread_text(inb_list) } })

----------------------------------------------------------------------------
(* Inputs.                                                                 *)

MaxSegs == 2     \* direct calls: marker-and-phrase segments in a text
MaxTurns == 3    \* ingestion: turns in the inbound list
MaxInt == 12     \* direct calls: magnitude of an int argument

RECURSIVE Flatten(_)
Flatten(q) == IF q = <<>> THEN <<>> ELSE Head(q) \o Flatten(Tail(q))

Range(q) == {q[i] : i \in 1..Len(q)}

RuleWords ==
    << strong_positive, resolution_words, wrong_report_words, refund_words,
       unresolved_words, delay_words, correction_words, language_words, fraud_words >>

AllKeywords == Range(Flatten(RuleWords))

(* Phrases with no keyword, with a keyword of a last-turn rule, with        *)
(* keywords of two full-text rules, and one in capitals.                   *)
Phrases ==
    { "", "hello", "excellent", "got it now", "refund not received", "STILL Waiting" }

Markers == { "", "Thread1- ", "\n\nTHREAD12 -\t" }

Segments == { m \o p : m \in Markers, p \in Phrases }

RECURSIVE TextsOf(_)
TextsOf(n) ==
    IF n = 0 THEN {""} ELSE LET shorter == TextsOf(n - 1)
                            IN  shorter \cup { x \o sg : x \in shorter, sg \in Segments }

(* The first keyword of each rule.                                         *)
FirstWords == { RuleWords[r][1] : r \in 1..Len(RuleWords) }

(* Every keyword of every rule alone, and together with the first keyword  *)
(* of every rule: in one turn and in two consecutive turns, in both        *)
(* orders; and every keyword before a refund and a delay keyword.          *)
KeywordTexts ==
    AllKeywords
    \cup { a \o ", refund, not received" : a \in AllKeywords }
    \cup { a \o " " \o b : a \in AllKeywords, b \in FirstWords }
    \cup { b \o " " \o a : a \in AllKeywords, b \in FirstWords }
    \cup { "Thread1- " \o a \o "\n\nThread2- " \o b : a \in AllKeywords, b \in FirstWords }
    \cup { "Thread1- " \o b \o "\n\nThread2- " \o a : a \in AllKeywords, b \in FirstWords }

(* The texts the specification gives as examples.                          *)
ExampleTexts ==
    { "Thread1- thank you so much\n\nThread2- still waiting for my report",
      "just checking on my order status",
      "Thread1- I never received my report\n\nThread2- issue resolved, got it now",
      "no markers here", " \n\t ", "Thread1- \n\nThread2-" }

(* Marker-free texts with white space around them.                        *)
PaddedTexts == { "  issue resolved \n", "\t refund, still waiting ", " hello", "Wrong Chart\r\n" }

NonStrings ==
    { PyNone, PyNaN, PyBool(TRUE), PyBool(FALSE) } \cup { PyInt(n) : n \in (-MaxInt)..MaxInt }

Inputs ==
    { PyStr(x) : x \in TextsOf(MaxSegs) \cup KeywordTexts \cup ExampleTexts \cup PaddedTexts }
    \cup NonStrings

(* Turns as extract_full_threads hands them over: longer than 5            *)
(* characters, trimmed, whitespace runs collapsed to one space.            *)
TurnTexts ==
    { "hello there", "Excellent work", "thank you so much", "still waiting",
      "issue resolved", "refund please", "see thread2 - excellent",
      "Thread9-got it now", "wrong x thread7", "thread", "12- wrong chart" }

RECURSIVE ListsOf(_)
ListsOf(n) ==
    IF n = 0 THEN {<<>>} ELSE LET shorter == ListsOf(n - 1)
                              IN  shorter \cup { Append(l, x) : l \in shorter, x \in TurnTexts }

MaxParts == 2    \* utils: pieces in the content of a thread

(* Pieces of mail bodies: plain words, white space, tags, entities (one    *)
(* encoded twice), reply headers with and without white space after the    *)
(* colon, the halves of a quoted-reply line and of the dashed marker,      *)
(* footers, and the halves of a style block.                               *)
Pieces ==
    { "Hello", " ", "\n", "x", "<br>", "<p class=a>", "&lt;", "&amp;lt;b&amp;gt;",
      "thanks", "Regards,", "Warm\n", "Team  Astro", "From:", "From: me", "To:\t",
      "On Mon ", "wrote:", "> ", "-----Original", " Message-----",
      "<style>p{}", "</STYLE>" }

RECURSIVE PartsOf(_)
PartsOf(n) ==
    IF n = 0 THEN {""} ELSE LET shorter == PartsOf(n - 1)
                            IN  shorter \cup { x \o pc1 : x \in shorter, pc1 \in Pieces }

(* Whole mail bodies: the example of the specification, a reply with       *)
(* quoted history, a signed mail, entities, and dashed markers written     *)
(* with two spaces and with a line break.                                  *)
ExampleContents ==
    { "Hello<br>issue not resolved<br>Regards,<br>John",
      "my report is wrong\n\nOn Mon, Team wrote:\n> your report",
      "Dear sir,\nplease send it.\n\nThanks &amp; Regards,\nRavi",
      "a &lt; b &amp;&amp; c &gt; d",
      "press &lt;b&gt; twice",
      "tom &amp;amp; jerry",
      "he wrote: hello From:me",
      "Hello\nRegards, Ravi\nFrom: Ravi To: desk",
      "hi -----Original  Message----- old",
      "see ---- Forwarded\nmessage ---- old",
      "<script src=a>x</script>ok <b>now</b>",
      "<div>Sent: today</div>Subject: re" }

Contents == { PyStr(x) : x \in PartsOf(MaxParts) \cup ExampleContents } \cup { PyNone }

----------------------------------------------------------------------------
(* Direct calls of analyze_sentiment.                                      *)

Init ==
    /\ pc = "call"
    /\ text \in Inputs
    /\ inbound_list = <<>>
    /\ res = NoResult
    /\ raised = "none"
    /\ NotEngineIdle

(* res = sentiment_engine.analyze_sentiment(text) *)
Analyze ==
    /\ pc = "call"
    /\ LET out == analyze_sentiment(text)
       IN  /\ res' = out.value
           /\ raised' = out.raised
    /\ pc' = "done"
    /\ UNCHANGED <<inbound_list, text, notEngineVars>>

Next == Analyze

Spec == Init /\ [][Next]_vars

----------------------------------------------------------------------------
(* main.py, lines 76-95: the inbound list is rendered and classified.      *)

InitThreads ==
    /\ pc = "build"
    /\ inbound_list \in ListsOf(MaxTurns)
    /\ text = PyStr("")
    /\ res = NoResult
    /\ raised = "none"
    /\ NotEngineIdle

(* inbound_text = utils.build_thread_text(inbound_list) *)
Build ==
    /\ pc = "build"
    /\ text' = PyStr(build_thread_text(inbound_list))
    /\ pc' = "built"
    /\ UNCHANGED <<inbound_list, res, raised, notEngineVars>>

(* if inbound_text.strip(): res = sentiment_engine.analyze_sentiment(inbound_text) *)
AnalyzeInbound ==
    /\ pc = "built"
    /\ strip(text.s) # ""
    /\ LET out == analyze_sentiment(text)
       IN  /\ res' = out.value
           /\ raised' = out.raised
    /\ pc' = "done"
    /\ UNCHANGED <<inbound_list, text, notEngineVars>>

(* else: "Completed - No Inbound" *)
NoInbound ==
    /\ pc = "built"
    /\ strip(text.s) = ""
    /\ pc' = "done"
    /\ UNCHANGED <<inbound_list, text, res, raised, notEngineVars>>

NextThreads == Build \/ AnalyzeInbound \/ NoInbound

SpecThreads == InitThreads /\ [][NextThreads]_vars

----------------------------------------------------------------------------
(* Two calls of analyze_sentiment: on a text, and on the same text with    *)
(* the letters of a stretch changed to their other case.                   *)

(* A TLA+ string holds ASCII characters only.  "$" stands for U+017F, the  *)
(* small letter long s: str.lower() leaves it as it is (LowerChar does),   *)
(* and its capital letter is "S".                                          *)
LongS == "$"

(* The letter in its other case; a character that is no letter is kept.    *)
OtherCase(c) ==
    IF c \in DOMAIN LowerOf THEN LowerOf[c]
    ELSE IF c = LongS THEN "S"
    ELSE IF \E k \in 1..26 : CharAt(LowerLetters, k) = c
    THEN CharAt(UpperLetters, CHOOSE k \in 1..26 : CharAt(LowerLetters, k) = c)
    ELSE c

(* s with the letters at the indices i to j changed to their other case.   *)
RECURSIVE SwapRange(_, _, _)
SwapRange(s, i, j) ==
    IF i > j THEN s
    ELSE IF i = j
    THEN SubSeq(s, 1, i - 1) \o OtherCase(CharAt(s, i)) \o SubSeq(s, i + 1, Len(s))
    ELSE LET mid == (i + j) \div 2
         IN  The({ SwapRange(first, mid + 1, j) : first \in { SwapRange(s, i, mid) } })

CaseTexts ==
    { "Thread1- thank you so much\n\nThread2- still waiting",
      "THREAD1 - Refund Please\nthread2-Got It Now",
      "Issue Resolved", "wrong chart", "hindi me", "Hello", "scam alert",
      LongS \o "cam alert", "i$$ue re$olved", "not a thread7marker - amazing" }

NotCaseIdle == UtilsIdle /\ ZohoIdle /\ MainIdle /\ ClientIdle /\ DashIdle
notCaseVars == <<utilsVars, zohoVars, mainVars, clientVars, dashVars>>

InitCase ==
    /\ pc = "call"
    /\ text \in { PyStr(x) : x \in CaseTexts }
    /\ inbound_list = <<>>
    /\ res = NoResult
    /\ raised = "none"
    /\ CaseIdle
    /\ NotCaseIdle

(* res = sentiment_engine.analyze_sentiment(text) *)
AnalyzeText ==
    /\ pc = "call"
    /\ LET out == analyze_sentiment(text)
       IN  /\ res' = out.value
           /\ raised' = out.raised
    /\ pc' = "done"
    /\ UNCHANGED <<inbound_list, text, caseVars, notCaseVars>>

(* res_recased = sentiment_engine.analyze_sentiment(recased) *)
AnalyzeRecased ==
    /\ pc = "done"
    /\ \E i \in 1..Len(text.s) : \E j \in i..Len(text.s) :
          LET changed == PyStr(SwapRange(text.s, i, j))
          IN  /\ recased' = changed
              /\ res_recased' = analyze_sentiment(changed).value
    /\ pc' = "recased"
    /\ UNCHANGED <<engineVars, notCaseVars>>

NextCase == AnalyzeText \/ AnalyzeRecased

SpecCase == InitCase /\ [][NextCase]_vars

----------------------------------------------------------------------------
(* One call of extract_full_threads(ticket_id, thread_list, contact_name). *)

MaxThreads == 2   \* zoho_client: threads in the list of a ticket

(* Threads of the customer Ravi Kumar and of the desk: a mail with a       *)
(* signature, an answer with a quoted header, texts that are short after   *)
(* the signature is cut or short altogether, a thread without content and  *)
(* without author, one that has a description and a creator only, one      *)
(* whose author is null, and one whose fetch fails.                        *)
ThreadKinds ==
    { Thread("ok", PyStr("Refund please<br>Regards, Ravi"), PyNone, PyNone,
             PyStr("Ravi Kumar"), PyNone),
      Thread("ok", PyStr("<p>We will check</p>From: desk"), PyNone, PyNone,
             PyStr("Support Desk"), PyNone),
      Thread("ok", PyStr("ok<br>thanks"), PyNone, PyNone, PyStr("RAVI KUMAR"), PyNone),
      Thread("ok", PyNone, PyStr("still waiting for my report"), PyNone,
             PyNone, PyStr("ravi kumar")),
      Thread("ok", PyStr("hello"), PyNone, PyNone, PyStr("Support Desk"), PyNone),
      Thread("ok", PyStr(""), PyNone, PyStr("hello!"), PyStr("Ravi Kumar"), PyNone),
      Thread("ok", PyNone, PyNone, PyNone, PyNone, PyNone),
      Thread("ok", PyStr("Call me back today"), PyNone, PyNone, JsonNull, PyNone),
      Thread("error", PyNone, PyNone, PyNone, PyNone, PyNone) }

RECURSIVE ThreadsOf(_)
ThreadsOf(n) ==
    IF n = 0 THEN {<<>>} ELSE LET shorter == ThreadsOf(n - 1)
                              IN  shorter \cup { Append(l, t) : l \in shorter, t \in ThreadKinds }

(* The answers of get_threads_list: with a list under "data", or without   *)
(* the key.                                                                *)
ThreadLists == { [has_data |-> TRUE, data |-> l] : l \in ThreadsOf(MaxThreads) } \cup { NoThreads }

(* main.py, line 56: the contact name of the row, trimmed, or "".          *)
ContactNames == { "", "Ravi", "RAVI KUMAR", "Desk" }

notZohoVars == <<text, res, raised, utilsVars, caseVars, mainVars, clientVars, dashVars>>

InitZoho ==
    /\ pc = "threads"
    /\ thread_list \in ThreadLists
    /\ contact_name \in ContactNames
    /\ ti = 0
    /\ inbound = <<>>
    /\ outbound = <<>>
    /\ inbound_list = <<>>
    /\ outbound_list = <<>>
    /\ text = PyStr("")
    /\ res = NoResult
    /\ raised = "none"
    /\ UtilsIdle /\ CaseIdle /\ MainIdle /\ ClientIdle /\ DashIdle

(* if "data" not in thread_list: return inbound, outbound *)
ReturnNoData ==
    /\ pc = "threads"
    /\ ~thread_list.has_data
    /\ inbound_list' = inbound
    /\ outbound_list' = outbound
    /\ pc' = "returned"
    /\ UNCHANGED <<thread_list, contact_name, ti, inbound, outbound, notZohoVars>>

(* One turn of the loop over thread_list["data"]: the thread is fetched,   *)
(* its text goes to one of the two lists or to none; an exception leaves   *)
(* both lists as they are.                                                 *)
FetchThread ==
    /\ pc = "threads"
    /\ thread_list.has_data
    /\ ti < Len(thread_list.data)
    /\ LET r == route(thread_list.data[ti + 1], contact_name, inbound, outbound)
       IN  /\ inbound' = r[1]
           /\ outbound' = r[2]
    /\ ti' = ti + 1
    /\ UNCHANGED <<pc, thread_list, contact_name, inbound_list, outbound_list, notZohoVars>>

(* return inbound[::-1], outbound[::-1] *)
ReturnLists ==
    /\ pc = "threads"
    /\ thread_list.has_data
    /\ ti = Len(thread_list.data)
    /\ inbound_list' = Reversed(inbound)
    /\ outbound_list' = Reversed(outbound)
    /\ pc' = "returned"
    /\ UNCHANGED <<thread_list, contact_name, ti, inbound, outbound, notZohoVars>>

NextZoho == ReturnNoData \/ FetchThread \/ ReturnLists

SpecZoho == InitZoho /\ [][NextZoho]_vars

----------------------------------------------------------------------------
(* One run of main.main from the loop over the rows on.                    *)

MaxRows == 2      \* main.py: rows in the input file

Blank == PyStr("")

(* Rows as the loop finds them: left by an earlier run as Completed,       *)
(* Failed and Skipped; new, with an empty cell (NaN) or an empty string as *)
(* status, with and without a ticket number and a contact name; and one    *)
(* whose status cell holds a space.                                        *)
RowKinds ==
    { Row(PyInt(101), PyStr("Ravi Kumar"), PyStr("Thread1- all fine now"), PyStr(""),
          PyFloat(0), PyStr("Neutral"), PyStr("Neutral"), PyStr("Low"),
          PyStr("General Query"), PyStr("Completed")),
      Row(PyInt(102), PyNaN, Blank, Blank, Blank, Blank, Blank, Blank, Blank,
          PyStr("Failed - timeout")),
      Row(PyNaN, PyStr("Ravi Kumar"), PyNaN, PyNaN, PyNaN, PyNaN, PyNaN, PyNaN, PyNaN,
          PyStr("Skipped - No Ticket")),
      Row(PyInt(103), PyStr(" Ravi Kumar"), PyNaN, PyNaN, PyNaN, PyNaN, PyNaN, PyNaN, PyNaN,
          PyNaN),
      Row(PyStr(" 104 "), PyNaN, Blank, Blank, Blank, Blank, Blank, Blank, Blank, Blank),
      Row(PyInt(105), PyStr("Ravi Kumar"), PyStr("Thread1- old text"), Blank,
          PyFloat(-45), PyStr("Negative"), PyStr("Frustrated"), PyStr("Medium"),
          PyStr("Service Delay / Not Delivered"), PyStr(" ")),
      Row(PyNaN, PyStr("Ravi Kumar"), Blank, Blank, Blank, Blank, Blank, Blank, Blank, Blank),
      Row(PyStr(" "), PyNaN, PyNaN, PyNaN, PyNaN, PyNaN, PyNaN, PyNaN, PyNaN, PyNaN) }

RECURSIVE RowsOf(_)
RowsOf(n) ==
    IF n = 0 THEN {<<>>} ELSE LET shorter == RowsOf(n - 1)
                              IN  shorter \cup { Append(l, r) : l \in shorter, r \in RowKinds }

(* A file long enough for the save after every fifth classified row: new   *)
(* rows around a Completed one.                                            *)
NewRow(n) ==
    Row(PyInt(n), PyStr("Ravi Kumar"), PyNaN, PyNaN, PyNaN, PyNaN, PyNaN, PyNaN, PyNaN, PyNaN)

LongFile ==
    << NewRow(201), NewRow(202),
       Row(PyInt(101), PyStr("Ravi Kumar"), PyStr("Thread1- all fine now"), PyStr(""),
           PyFloat(0), PyStr("Neutral"), PyStr("Neutral"), PyStr("Low"),
           PyStr("General Query"), PyStr("Completed")),
       NewRow(203), NewRow(204), NewRow(205) >>

InputFiles == RowsOf(MaxRows) \cup { LongFile }

(* What the Zoho client does for a row: the ticket search raises, finds    *)
(* nothing, or finds the ticket; then the thread list raises or comes      *)
(* back, with the threads behind it.                                       *)
FailMessages == { "timeout" }

CustomerMail ==
    Thread("ok", PyStr("Refund please<br>Regards, Ravi"), PyNone, PyNone,
           PyStr("Ravi Kumar"), PyNone)

DeskAnswer ==
    Thread("ok", PyStr("<p>We will check</p>From: desk"), PyNone, PyNone,
           PyStr("Support Desk"), PyNone)

(* A thread whose fetch raises.                                            *)
LostThread == Thread("error", PyNone, PyNone, PyNone, PyNone, PyNone)

TicketThreads ==
    { NoThreads,
      [has_data |-> TRUE, data |-> <<>>],
      [has_data |-> TRUE, data |-> <<DeskAnswer>>],
      [has_data |-> TRUE, data |-> <<DeskAnswer, CustomerMail>>],
      [has_data |-> TRUE, data |-> <<LostThread, CustomerMail>>] }

(* What a call can raise: an exception of class Exception, with its        *)
(* message, or one outside it (KeyboardInterrupt, SystemExit).             *)
Raised == { [class |-> "Exception", msg |-> e] : e \in FailMessages }
              \cup { [class |-> "KeyboardInterrupt", msg |-> ""] }

NotRaised == [class |-> "", msg |-> ""]

Answers ==
    { [ticket |-> "raises", threads |-> "none", exc |-> x, list |-> NoThreads]
          : x \in Raised }
    \cup { [ticket |-> "not found", threads |-> "none", exc |-> NotRaised, list |-> NoThreads] }
    \cup { [ticket |-> "found", threads |-> "raises", exc |-> x, list |-> NoThreads]
               : x \in Raised }
    \cup { [ticket |-> "found", threads |-> "ok", exc |-> NotRaised, list |-> tl]
               : tl \in TicketThreads }

(* except Exception as e *)
caught(x) == x.class = "Exception"

(* Mutant: the handler leaves the status of the row as it is.              *)
on_exception_unmarked(row, x) == row

(* df.at[index, 'processing_status'] = f"Failed - {str(e)}" *)
on_exception(row, x) == with_status(row, "Failed - " \o x.msg)

(* Mutant: the file is saved after every counted row.                      *)
save_due_always(count) == TRUE

(* if processed_count % 5 == 0 *)
save_due(count) == count % 5 = 0

(* The calls on the client a row with this answer costs: the search, the   *)
(* thread list, one fetch per thread.                                      *)
CallsFor(a) ==
    IF a.ticket # "found" THEN 1
    ELSE IF a.threads # "ok" THEN 2
    ELSE 2 + Len(a.list.data)

(* df.to_excel(excel_config['OUTPUT_FILE'], index=False) *)
Written(rows) == [written |-> TRUE, rows |-> rows]

notMainVars == <<engineVars, utilsVars, caseVars, zohoVars, clientVars, dashVars>>

InitMain ==
    /\ pc = "rows"
    /\ input_rows \in InputFiles
    /\ df = input_rows
    /\ index = 0
    /\ processed_count = 0
    /\ calls = [k \in 1..Len(input_rows) |-> 0]
    /\ saved = NoFile
    /\ events = [k \in 1..Len(input_rows) |-> {}]
    /\ EngineIdle /\ UtilsIdle /\ CaseIdle /\ ZohoIdle /\ ClientIdle /\ DashIdle

(* What happened in the turn of the loop for a row with this answer, up to *)
(* the save: the exception of a call, or the fetch of a thread that raised *)
(* inside extract_full_threads, and the row counted.                       *)
EventsFor(a) ==
    IF a.ticket = "raises" THEN {"lookup raised"}
    ELSE IF a.ticket = "not found" THEN {"not found"}
    ELSE IF a.threads = "raises" THEN {"list raised"}
    ELSE {"counted"} \cup
         (IF \E k \in 1..Len(a.list.data) : a.list.data[k].fetch = "error"
          THEN {"thread raised"} ELSE {})

(* One turn of the loop "for index, row in df.iterrows()": row is the row  *)
(* as it was when the loop started, df.at writes to the data frame.  An    *)
(* exception the handler does not catch ends main.                         *)
Iterate ==
    /\ pc = "rows"
    /\ index < Len(df)
    /\ LET i == index + 1
           row == input_rows[i]
       IN  IF already_processed(row)
           THEN /\ events' = [events EXCEPT ![i] = {"skipped"}]
                /\ index' = i
                /\ UNCHANGED <<pc, df, calls, processed_count, saved>>
           ELSE IF ticket_number_of(row) = "" \/ ticket_number_of(row) = "nan"
           THEN /\ df' = [df EXCEPT ![i] = with_status(@, "Skipped - No Ticket")]
                /\ events' = [events EXCEPT ![i] = {"no ticket"}]
                /\ index' = i
                /\ UNCHANGED <<pc, calls, processed_count, saved>>
           ELSE \E a \in Answers :
                  /\ calls' = [calls EXCEPT ![i] = CallsFor(a)]
                  /\ IF a.exc # NotRaised /\ ~caught(a.exc)
                     THEN /\ pc' = "aborted"
                          /\ events' = [events EXCEPT ![i] = EventsFor(a) \cup {"not caught"}]
                          /\ UNCHANGED <<df, index, processed_count, saved>>
                     ELSE IF a.exc # NotRaised
                     THEN /\ df' = [df EXCEPT ![i] = on_exception(@, a.exc)]
                          /\ events' = [events EXCEPT ![i] = EventsFor(a)]
                          /\ index' = i
                          /\ UNCHANGED <<pc, processed_count, saved>>
                     ELSE IF a.ticket = "not found"
                     THEN /\ df' = [df EXCEPT ![i] = with_status(@, "Failed - Ticket Not Found")]
                          /\ events' = [events EXCEPT ![i] = EventsFor(a)]
                          /\ index' = i
                          /\ UNCHANGED <<pc, processed_count, saved>>
                     ELSE \E lists \in { extract_full_threads(a.list, contact_name_of(row)) } :
                          LET done == [df EXCEPT ![i] = with_threads(@, lists[1], lists[2])]
                          IN  /\ processed_count' = processed_count + 1
                              /\ index' = i
                              /\ UNCHANGED pc
                              /\ IF save_due(processed_count + 1)
                                 THEN \/ /\ df' = done
                                         /\ saved' = Written(done)
                                         /\ events' = [events EXCEPT ![i] =
                                                          EventsFor(a) \cup {"save tried"}]
                                      \/ \E x \in Raised :
                                            /\ caught(x)
                                            /\ df' = [done EXCEPT ![i] = on_exception(@, x)]
                                            /\ events' = [events EXCEPT ![i] =
                                                  EventsFor(a) \cup {"save tried", "save raised"}]
                                            /\ UNCHANGED saved
                                 ELSE /\ df' = done
                                      /\ events' = [events EXCEPT ![i] = EventsFor(a)]
                                      /\ UNCHANGED saved
    /\ UNCHANGED <<input_rows, notMainVars>>

(* The final save after the loop; when it raises, main ends with the       *)
(* exception and the output file is as the last save left it.              *)
FinalSave ==
    /\ pc = "rows"
    /\ index = Len(df)
    /\ \/ saved' = Written(df) /\ pc' = "saved"
       \/ UNCHANGED saved /\ pc' = "crashed"
    /\ UNCHANGED <<input_rows, df, index, processed_count, calls, events, notMainVars>>

NextMain == Iterate \/ FinalSave

SpecMain == InitMain /\ [][NextMain]_vars

----------------------------------------------------------------------------
(* Calls of zoho_get on one client, the clock passing between them.        *)

MaxCalls == 2     \* zoho_client: calls of zoho_get on the client

TokenAnswers == { "token", "no token", "raises" }

Responses ==
    { Response(s, TRUE, b) : s \in {200, 401, 500}, b \in {"{1}", "{2}"} }
    \cup { Response(s, FALSE, "<html>") : s \in {200, 401, 500} }
    \cup { RequestFails }

notClientVars == <<engineVars, utilsVars, caseVars, zohoVars, mainVars, dashVars>>

(* ZohoDeskClient(zoho_config) *)
InitGet ==
    /\ pc = "client"
    /\ ClientIdle
    /\ EngineIdle /\ UtilsIdle /\ CaseIdle /\ ZohoIdle /\ MainIdle /\ DashIdle

(* One call of zoho_get.                                                   *)
ZohoGet ==
    /\ pc = "client"
    /\ ncalls < MaxCalls
    /\ \E g1 \in TokenAnswers, r1 \in Responses, g2 \in TokenAnswers, r2 \in Responses :
          \E end \in { zoho_get(Client(access_token, token_expiry, issued, <<>>),
                                g1, r1, g2, r2) } :
              /\ access_token' = end.st.access_token
              /\ token_expiry' = end.st.token_expiry
              /\ issued' = end.st.issued
              /\ log' = end.st.log
              /\ result' = end.out
    /\ ncalls' = ncalls + 1
    /\ UNCHANGED <<pc, notClientVars>>

(* The clock passes token_expiry.                                          *)
Expire ==
    /\ pc = "client"
    /\ token_expiry = "later"
    /\ token_expiry' = "passed"
    /\ UNCHANGED <<pc, access_token, issued, log, result, ncalls, notClientVars>>

NextGet == ZohoGet \/ Expire

SpecGet == InitGet /\ [][NextGet]_vars

----------------------------------------------------------------------------
(* customer_sentiment_dashboard: one browser session of the dashboard.     *)

AdminHash == "240be518fabd2724ddb6f04eeb1da5967448d7e831c08c8fa822809f74c720a9"

ViewerHash == "65375049b9e4d7cad6c9ba286fdeb9394b28135a3e84136404cfccfdcc438894"

(* What is typed in the password field: the two passwords, none, one in    *)
(* another case, and the stored hash of the administrator.                 *)
Passwords == { "admin123", "viewer123", "", "Admin123", AdminHash }

Usernames == { "admin", "viewer", "", "Admin", "guest" }

(* hashlib.sha256(s.encode()).hexdigest(), on the passwords above.         *)
sha256(s) ==
    CASE s = "admin123" -> AdminHash
      [] s = "viewer123" -> ViewerHash
      [] s = "" -> "e3b0c44298fc1c149afbf4c8996fb92427ae41e4649b934ca495991b7852b855"
      [] s = "Admin123" -> "3b612c75a7b5048a435fb6ec81e52ff92d6d795a8b5a9c17070f6a63c97a53b2"
      [] s = AdminHash -> "da1a51f975cd750be255d21548eaae1dbaa96ffc997283a6a204f9213a8aca71"

(* users.json as ensure_user_db writes it.                                 *)
Users ==
    [ u \in { "admin", "viewer" } |->
        IF u = "admin" THEN [pwd |-> sha256("admin123"), role |-> "admin"]
        ELSE [pwd |-> sha256("viewer123"), role |-> "viewer"] ]

(* Mutant: the password is not compared.                                   *)
authenticate_any_password(username, password) ==
    IF username \in DOMAIN Users
    THEN [ok |-> TRUE, role |-> Users[username].role]
    ELSE [ok |-> FALSE, role |-> "None"]

(* authenticate(username, password) *)
authenticate(username, password) ==
    IF username \in DOMAIN Users /\ Users[username].pwd = sha256(password)
    THEN [ok |-> TRUE, role |-> Users[username].role]
    ELSE [ok |-> FALSE, role |-> "None"]

(* What starts a run of the script: the page is opened, st.rerun() was     *)
(* called, a widget of a page is used, or one of the buttons is pressed.   *)
Event(kind, username, password, pid) ==
    [kind |-> kind, username |-> username, password |-> password, pid |-> pid]

NoEvent(kind) == Event(kind, "", "", "")

(* login_sidebar(): the session state after it, what it returns ("rerun"   *)
(* when st.rerun() ends the run), and the answer of authenticate.          *)
login_sidebar(sess, ev) ==
    LET s1 == IF sess.logged = "absent"
              THEN [sess EXCEPT !.logged = "False", !.user = "None", !.role = "None"]
              ELSE sess
    IN  IF s1.logged = "True"
        THEN IF ev.kind = "logout"
             THEN [sess |-> NoSession, out |-> "rerun", auth |-> "none"]
             ELSE [sess |-> s1, out |-> "True", auth |-> "none"]
        ELSE IF ev.kind = "login"
        THEN LET a == authenticate(ev.username, ev.password)
             IN  IF a.ok
                 THEN [sess |-> [s1 EXCEPT !.logged = "True", !.user = ev.username,
                                           !.role = a.role],
                       out |-> "rerun", auth |-> "ok"]
                 ELSE [sess |-> s1, out |-> "False", auth |-> "refused"]
        ELSE [sess |-> s1, out |-> "False", auth |-> "none"]

(* The Excel file as load_excel_data finds it.                             *)
DataFiles == { "rows", "no rows", "missing", "unreadable" }

(* load_excel_data(): the frame of the file, or an empty frame.            *)
load_excel_data(file) == IF file = "rows" THEN "rows" ELSE "empty"

(* load_data_once() *)
load_data_once(sess, file) ==
    IF sess.df = "absent" THEN [sess EXCEPT !.df = load_excel_data(file)] ELSE sess

PageIds ==
    { "Summary", "Sentiment", "Emotions", "Performance", "Owners", "Risk",
      "Category", "Explorer" }

(* What a run leaves: the session state, whether st.rerun() ended it, what *)
(* is on the screen, and the record of the run.                            *)
Ran(sess, again, shown, run) == [sess |-> sess, rerun |-> again, screen |-> shown, run |-> run]

(* main(): one run of the script, started by ev, with the Excel file as    *)
(* it is then.                                                             *)
main(sess, ev, file) ==
    LET l == login_sidebar(sess, ev)
        run(loaded, rendered) ==
            RunOf(ev.kind, ev.username, ev.password, l.auth, loaded, rendered)
    IN  IF l.out = "rerun" THEN Ran(l.sess, TRUE, "none", run(FALSE, "none"))
        ELSE IF l.out = "False" THEN Ran(l.sess, FALSE, "login", run(FALSE, "none"))
        ELSE LET d == load_data_once(l.sess, file)
                 loaded == l.sess.df = "absent"
                 p == IF d.page = "absent" THEN [d EXCEPT !.page = "Summary"] ELSE d
             IN  IF d.df = "empty" THEN Ran(d, FALSE, "no data", run(loaded, "none"))
                 ELSE IF ev.kind = "nav"
                 THEN Ran([p EXCEPT !.page = ev.pid], TRUE, "none", run(loaded, "none"))
                 ELSE Ran(p, FALSE, "dashboard", run(loaded, p.page))

notDashVars == <<engineVars, utilsVars, caseVars, zohoVars, mainVars, clientVars>>

(* The script has not run in the session.                                  *)
InitDash ==
    /\ pc = "dash"
    /\ session = NoSession
    /\ rerun = FALSE
    /\ screen = "none"
    /\ last_run = NoRun
    /\ excel_file \in DataFiles
    /\ EngineIdle /\ UtilsIdle /\ CaseIdle /\ ZohoIdle /\ MainIdle /\ ClientIdle

(* The script runs on ev in the session state sess.                        *)
Runs(sess, ev) ==
    /\ \E end \in { main(sess, ev, excel_file) } :
          /\ session' = end.sess
          /\ rerun' = end.rerun
          /\ screen' = end.screen
          /\ last_run' = end.run
    /\ UNCHANGED <<pc, excel_file, notDashVars>>

(* The page is opened or reloaded in the browser: a new session.           *)
Open ==
    /\ pc = "dash"
    /\ Runs(NoSession, NoEvent("open"))

(* The run that st.rerun() asked for.                                      *)
Rerun ==
    /\ pc = "dash"
    /\ rerun
    /\ Runs(session, NoEvent("rerun"))

(* The Login button of the form is pressed.                                *)
Login ==
    /\ pc = "dash"
    /\ ~rerun
    /\ screen = "login"
    /\ \E u \in Usernames, pw \in Passwords : Runs(session, Event("login", u, pw, ""))

(* A navigation button of the sidebar is pressed.                          *)
Navigate ==
    /\ pc = "dash"
    /\ ~rerun
    /\ screen = "dashboard"
    /\ \E pid \in PageIds : Runs(session, Event("nav", "", "", pid))

(* A widget of the page shown is used.                                     *)
Interact ==
    /\ pc = "dash"
    /\ ~rerun
    /\ screen = "dashboard"
    /\ Runs(session, NoEvent("widget"))

(* The Logout button of the sidebar is pressed.                            *)
Logout ==
    /\ pc = "dash"
    /\ ~rerun
    /\ screen \in { "dashboard", "no data" }
    /\ Runs(session, NoEvent("logout"))

(* The Excel file is written, emptied, removed or damaged between two     *)
(* runs.                                                                   *)
FileChanges ==
    /\ pc = "dash"
    /\ \E file \in DataFiles \ { excel_file } : excel_file' = file
    /\ UNCHANGED <<pc, session, rerun, screen, last_run, notDashVars>>

NextDash == Open \/ Rerun \/ Login \/ Navigate \/ Interact \/ Logout \/ FileChanges

SpecDash == InitDash /\ [][NextDash]_vars

----------------------------------------------------------------------------
(* Direct calls of the text functions of utils on the content of a thread. *)

NotUtilsIdle == EngineIdle /\ CaseIdle /\ ZohoIdle /\ MainIdle /\ ClientIdle /\ DashIdle

InitUtils ==
    /\ pc = "raw"
    /\ content \in Contents
    /\ fresh = PyNone
    /\ fresh_again = PyNone
    /\ full = PyNone
    /\ NotUtilsIdle

(* fresh = utils.extract_fresh_message(content) *)
ExtractFresh ==
    /\ pc = "raw"
    /\ fresh' = PyStr(extract_fresh_message(content))
    /\ pc' = "fresh"
    /\ UNCHANGED <<content, fresh_again, full, notUtilsVars>>

(* fresh_again = utils.extract_fresh_message(fresh) *)
ExtractFreshAgain ==
    /\ pc = "fresh"
    /\ fresh_again' = PyStr(extract_fresh_message(fresh))
    /\ pc' = "again"
    /\ UNCHANGED <<content, fresh, full, notUtilsVars>>

(* full = utils.extract_full_text(content) *)
ExtractFull ==
    /\ pc = "raw"
    /\ full' = PyStr(extract_full_text(content))
    /\ pc' = "full"
    /\ UNCHANGED <<content, fresh, fresh_again, notUtilsVars>>

NextUtils == ExtractFresh \/ ExtractFreshAgain \/ ExtractFull

SpecUtils == InitUtils /\ [][NextUtils]_vars

----------------------------------------------------------------------------
(* The rule table of the specification (section 4.2), by priority.         *)

RuleTable ==
    << Outcome(80, "Positive", "Joy", "Low", "Appreciation"),
       Outcome(50, "Positive", "Satisfied", "Low", "Resolved"),
       Outcome(-75, "Negative", "Angry", "High", "Wrong Report"),
       Outcome(-75, "Negative", "Disappointed", "High", "Refund / Cancellation"),
       Outcome(-65, "Negative", "Angry", "High", "Unresolved Issue"),
       Outcome(-45, "Negative", "Frustrated", "Medium", "Service Delay / Not Delivered"),
       Outcome(-25, "Neutral", "Concerned", "Low", "Correction Request"),
       Outcome(-20, "Neutral", "Concerned", "Low", "Language Issue"),
       Outcome(-85, "Negative", "Angry", "Critical", "Fraud Accusation") >>

DefaultRow == Outcome(0, "Neutral", "Neutral", "Low", "General Query")

OutcomeFields ==
    {"sentiment_score", "sentiment_label", "emotion", "complaint_risk_level", "ticket_category"}

(* The lower-cased text of the argument, its turns and its final turn.     *)
LowText == lower(str(text))
Turns == threads(LowText)
FinalTurn == IF Turns # <<>> THEN Turns[Len(Turns)] ELSE LowText

(* The rules whose keyword set meets their scoped text.                    *)
Scoped(r) == IF r <= 2 THEN FinalTurn ELSE LowText
Matching == {r \in 1..Len(RuleWords) : has(RuleWords[r], Scoped(r))}
Lowest(S) == CHOOSE x \in S : \A y \in S : x <= y

Returned == pc = "done" /\ raised = "none"

----------------------------------------------------------------------------
(* Claims on analyze_sentiment, checked under Spec.                        *)

(* C1: the record returned is the outcome of the lowest-numbered rule      *)
(* whose keyword set has a keyword in its scoped text (the last turn for   *)
(* rules 1-2, the whole lower-cased text for rules 3-9), and the default   *)
(* General Query outcome exactly when no rule matches.                     *)
C1_FirstMatchWins ==
    pc = "done" =>
        /\ res = IF Matching = {} THEN DefaultRow ELSE RuleTable[Lowest(Matching)]
        /\ (res = DefaultRow <=> Matching = {})

(* Several rules match, and a full-text rule that is not the last wins.    *)
C1_Witness ==
    /\ Returned
    /\ Cardinality(Matching) >= 2
    /\ Lowest(Matching) >= 3
    /\ res = RuleTable[Lowest(Matching)]

(* C2, as claimed: every text with a rule-4 keyword and a rule-6 keyword   *)
(* gets the rule-4 outcome.                                                *)
C2_RefundAlways ==
    (pc = "done" /\ has(refund_words, LowText) /\ has(delay_words, LowText))
        => res = RuleTable[4]

(* C2, amended: a text with a rule-4 keyword and a rule-6 keyword never    *)
(* gets the rule-6 outcome, and gets the rule-4 outcome whenever none of   *)
(* the rules 1-3 matches.                                                  *)
C2_RefundBeforeDelay ==
    (pc = "done" /\ has(refund_words, LowText) /\ has(delay_words, LowText))
        => /\ res # RuleTable[6]
           /\ (Matching \cap {1, 2, 3} = {}) => res = RuleTable[4]

C2_Witness ==
    /\ Returned
    /\ has(refund_words, LowText)
    /\ has(delay_words, LowText)
    /\ Matching \cap {1, 2, 3} = {}
    /\ res = RuleTable[4]

ScopeExample == "Thread1- thank you so much\n\nThread2- still waiting for my report"

(* C3: in a thread-marked conversation (two turns or more after            *)
(* segmentation) where a strong-gratitude keyword occurs in an earlier     *)
(* turn and not in the final turn, the Appreciation outcome is not         *)
(* returned; the example of the specification is a Service Delay.          *)
C3_GratitudeOnlyInLastTurn ==
    pc = "done" =>
        /\ ( /\ Len(Turns) >= 2
             /\ \E i \in 1..(Len(Turns) - 1) : has(strong_positive, Turns[i])
             /\ ~has(strong_positive, Turns[Len(Turns)]) )
           => res # RuleTable[1]
        /\ text = PyStr(ScopeExample) => res = RuleTable[6]

C3_Witness ==
    /\ Returned
    /\ Len(Turns) >= 2
    /\ has(strong_positive, Turns[1])
    /\ ~has(strong_positive, Turns[Len(Turns)])
    /\ has(delay_words, Turns[Len(Turns)])
    /\ res = RuleTable[6]

(* C4: when the final turn holds a resolution-confirmation keyword and no  *)
(* strong-gratitude keyword, the Resolved outcome is returned, whatever    *)
(* complaint keywords the text and the final turn itself hold.             *)
C4_ResolvedOverride ==
    (pc = "done" /\ has(resolution_words, FinalTurn) /\ ~has(strong_positive, FinalTurn))
        => res = RuleTable[2]

(* A complaint keyword stands in the final turn itself.                    *)
C4_Witness ==
    /\ Returned
    /\ has(resolution_words, FinalTurn)
    /\ \E r \in 3..9 : has(RuleWords[r], FinalTurn)
    /\ res = RuleTable[2]

(* C5: a text none of whose lower-cased form holds a keyword of any of the *)
(* nine rules (the empty and the whitespace-only text among them) gets the *)
(* default record.                                                         *)
C5_DefaultFallback ==
    (pc = "done" /\ \A r \in 1..Len(RuleWords) : ~has(RuleWords[r], LowText))
        => res = DefaultRow

(* A whitespace-only text got the default record.                          *)
C5_Witness ==
    /\ Returned
    /\ text.type = "str"
    /\ text.s # ""
    /\ strip(text.s) = ""
    /\ res = DefaultRow

C7_OneRow ==
    (pc = "done" /\ raised = "none") =>
        /\ DOMAIN res = OutcomeFields
        /\ res \in Range(RuleTable) \cup {DefaultRow}

(* Three rules or more match at once and one whole row is returned.        *)
C7_Witness ==
    /\ Returned
    /\ Cardinality(Matching) >= 3
    /\ res \in Range(RuleTable)

----------------------------------------------------------------------------
(* Claims on build_thread_text followed by the segmentation of             *)
(* analyze_sentiment, checked under SpecThreads.                           *)

Built == pc \in {"built", "done"}

(* The text as analyze_sentiment segments it.                              *)
BuiltLow == lower(text.s)

(* A turn the round trip is claimed for: not empty, trimmed, lower-case    *)
(* and without a match of the thread-marker pattern.                       *)
PlainTurn(x) == x # "" /\ strip(x) = x /\ lower(x) = x /\ ~HasMarker(x)

(* C9: for turns that are non-empty, trimmed, lower-case and free of the   *)
(* thread-marker pattern, splitting build_thread_text(turns) on the marker *)
(* pattern, trimming and dropping the empty segments gives the same turns  *)
(* in the same order.                                                      *)
C9_RoundTrip ==
    (Built /\ \A i \in 1..Len(inbound_list) : PlainTurn(inbound_list[i]))
        => threads(BuiltLow) = inbound_list

(* Three plain turns, among them one that ends in "thread7" and one that   *)
(* starts with digits and a hyphen, came back as they were.                *)
C9_Witness ==
    /\ Built
    /\ Len(inbound_list) = 3
    /\ \A i \in 1..3 : PlainTurn(inbound_list[i])
    /\ inbound_list[1] = "wrong x thread7"
    /\ inbound_list[2] = "12- wrong chart"
    /\ threads(BuiltLow) = inbound_list

(* C10, as claimed: for every non-empty list of turns the last thread used *)
(* for rules 1 and 2 is the lower-cased, trimmed final turn.               *)
C10_LastIsFinalTurn ==
    (Built /\ inbound_list # <<>>)
        => last_thread(BuiltLow) = strip(lower(inbound_list[Len(inbound_list)]))

(* C10, amended: the same for every non-empty list whose final turn is not *)
(* blank and holds no match of the thread-marker pattern, in any case of   *)
(* letters; the earlier turns are free.                                    *)
C10_LastIsPlainFinalTurn ==
    ( /\ Built
      /\ inbound_list # <<>>
      /\ strip(inbound_list[Len(inbound_list)]) # ""
      /\ ~HasMarker(lower(inbound_list[Len(inbound_list)])) )
        => last_thread(BuiltLow) = strip(lower(inbound_list[Len(inbound_list)]))

(* An earlier turn holds a marker of its own and the final turn is in      *)
(* capitals: the last thread is still the final turn, lower-cased.         *)
C10_Witness ==
    /\ Built
    /\ Len(inbound_list) >= 2
    /\ HasMarker(lower(inbound_list[1]))
    /\ inbound_list[Len(inbound_list)] = "Excellent work"
    /\ last_thread(BuiltLow) = "excellent work"

----------------------------------------------------------------------------
(* Claims on the segmentation inside analyze_sentiment, checked under      *)
(* Spec.                                                                   *)

(* The keywords of rule r that a block holds.                              *)
KeywordsIn(r, block) == {k \in 1..Len(RuleWords[r]) : In(RuleWords[r][k], block)}

(* C11, as claimed: for every text in which the thread-marker pattern      *)
(* never matches, the segmentation yields exactly one element, the whole   *)
(* trimmed text, and that element is the last thread of rules 1-2.         *)
C11_MarkerFreeOneTurn ==
    (pc = "done" /\ ~HasMarker(LowText))
        => /\ Turns = <<strip(LowText)>>
           /\ last_thread(LowText) = strip(LowText)

(* C11, amended: the same for every marker-free text that is not blank;    *)
(* the trimmed text of rules 1-2 then holds the keywords of the whole text *)
(* of rules 3-9, rule by rule.  A blank marker-free text yields no         *)
(* element, and rules 1-2 look at the text itself.                         *)
C11_MarkerFreeNonBlankOneTurn ==
    (pc = "done" /\ ~HasMarker(LowText)) =>
        IF strip(LowText) # ""
        THEN /\ Turns = <<strip(LowText)>>
             /\ last_thread(LowText) = strip(LowText)
             /\ \A r \in 1..Len(RuleWords) :
                    KeywordsIn(r, last_thread(LowText)) = KeywordsIn(r, LowText)
        ELSE /\ Turns = <<>>
             /\ last_thread(LowText) = LowText

(* A marker-free text with white space on both sides: one trimmed turn,    *)
(* whose resolution keyword wins over the complaint rules.                 *)
C11_Witness ==
    /\ Returned
    /\ ~HasMarker(LowText)
    /\ strip(LowText) # LowText
    /\ IsSpace(Head(LowText))
    /\ Turns = <<strip(LowText)>>
    /\ has(resolution_words, last_thread(LowText))
    /\ res = RuleTable[2]

(* C12, as claimed: when the segmentation yields no element, the last      *)
(* thread of rules 1-2 is the empty string.                                *)
C12_NoTurnsEmptyLast ==
    (pc = "done" /\ Turns = <<>>) => last_thread(LowText) = ""

(* C12, amended: when the segmentation yields no element, the last thread  *)
(* of rules 1-2 is the whole lower-cased text; it holds white space and    *)
(* thread markers only, no keyword of any rule, and the default record is  *)
(* returned.                                                               *)
C12_NoTurnsWholeText ==
    (pc = "done" /\ Turns = <<>>) =>
        /\ last_thread(LowText) = LowText
        /\ \A r \in 1..Len(RuleWords) : ~has(RuleWords[r], last_thread(LowText))
        /\ raised = "none" => res = DefaultRow

(* A text of markers and white space only: no turn, and the last thread is *)
(* that text, not the empty string.                                        *)
C12_Witness ==
    /\ Returned
    /\ HasMarker(LowText)
    /\ Turns = <<>>
    /\ last_thread(LowText) = LowText
    /\ LowText # ""
    /\ res = DefaultRow

----------------------------------------------------------------------------
(* Claim on build_thread_text alone, checked under SpecThreads.            *)

(* The k-th turn as the claim renders it.                                  *)
RenderedTurn(k) == "Thread" \o NatToStr(k) \o "- " \o inbound_list[k]

(* The first n rendered turns, two newlines between consecutive ones.      *)
RECURSIVE RenderedUpTo(_)
RenderedUpTo(n) ==
    IF n = 0 THEN ""
    ELSE IF n = 1 THEN RenderedTurn(1)
    ELSE RenderedUpTo(n - 1) \o "\n\n" \o RenderedTurn(n)

(* C13: build_thread_text gives the empty text for no turns; otherwise the *)
(* turns in order, the k-th (k from 1) as "Thread<k>- " and the turn       *)
(* unchanged, two newlines between consecutive turns and nothing after the *)
(* last turn.                                                              *)
C13_Rendering ==
    Built =>
        /\ inbound_list = <<>> => text.s = ""
        /\ text.s = RenderedUpTo(Len(inbound_list))
        /\ inbound_list # <<>> =>
              LET last == RenderedTurn(Len(inbound_list))
              IN  SubSeq(text.s, Len(text.s) - Len(last) + 1, Len(text.s)) = last

(* Three turns, one of them with a marker of its own, rendered in order.   *)
C13_Witness ==
    /\ Built
    /\ inbound_list = <<"hello there", "Thread9-got it now", "still waiting">>
    /\ text.s = "Thread1- hello there\n\nThread2- Thread9-got it now\n\nThread3- still waiting"

----------------------------------------------------------------------------
(* Claims on extract_fresh_message and extract_full_text, checked under    *)
(* SpecUtils.                                                              *)

Freshened == pc \in {"fresh", "again"}

(* The two dashed markers, which the patterns hold with single spaces.     *)
DashedMarkers == { "-----Original Message-----", "---- Forwarded message ----" }

ExampleContent == "Hello<br>issue not resolved<br>Regards,<br>John"

(* C14, as claimed: running extract_fresh_message on its own output gives  *)
(* that output again, for every input.                                     *)
C14_Idempotent ==
    pc = "again" => fresh_again = fresh

(* C14, amended: the same for every input whose output holds no "&" and    *)
(* neither dashed marker; the example of the specification gives           *)
(* "Hello issue not resolved" both times.                                  *)
C14_IdempotentOnPlainOutput ==
    pc = "again" =>
        /\ ( /\ ~In("&", fresh.s)
             /\ \A d \in DashedMarkers : FindLit(fresh.s, 1, d) = 0 )
           => fresh_again = fresh
        /\ content = PyStr(ExampleContent) => fresh_again = PyStr("Hello issue not resolved")

(* The example: tags and signature are removed, and the second run changes *)
(* nothing.                                                                *)
C14_Witness ==
    /\ pc = "again"
    /\ content = PyStr(ExampleContent)
    /\ fresh = PyStr("Hello issue not resolved")
    /\ fresh_again = fresh

(* The marker texts the claim lists.                                       *)
ReplyMarkerTexts == { "From:", "Sent:", "To:", "Subject:", "wrote:" } \cup DashedMarkers

FooterMarkerTexts ==
    { "thanks", "regards", "warm regards", "team astro", "astro arun pandit",
      "customer support" }

HasTag(s) == \E i \in 1..Len(s) : TagEnd(s, i) > 0

(* C15, as claimed: the output of extract_fresh_message holds no HTML tag  *)
(* and, in any case of letters, none of the reply-header and footer marker *)
(* texts.                                                                  *)
C15_NoMarkerText ==
    Freshened =>
        /\ ~HasTag(fresh.s)
        /\ \A t \in ReplyMarkerTexts \cup FooterMarkerTexts : FindLit(fresh.s, 1, t) = 0

(* C15, amended: the output holds no HTML tag, none of the footer marker   *)
(* texts in any case of letters, and no match of a footer pattern or of a  *)
(* reply-header pattern other than the two dashed markers.                 *)
C15_NoPatternMatch ==
    Freshened =>
        /\ ~HasTag(fresh.s)
        /\ \A t \in FooterMarkerTexts : FindLit(fresh.s, 1, t) = 0
        /\ \A k \in 1..Len(footer_patterns) : FirstMatch(footer_patterns[k], fresh.s) = 0
        /\ \A k \in 1..Len(reply_patterns) :
               reply_patterns[k].kind # "literal" => FirstMatch(reply_patterns[k], fresh.s) = 0

(* A signed mail with an entity: the text before the signature is kept.    *)
C15_Witness ==
    /\ pc = "fresh"
    /\ content = PyStr("Dear sir,\nplease send it.\n\nThanks &amp; Regards,\nRavi")
    /\ FirstMatch(footer_patterns[1], content.s) > 0
    /\ fresh = PyStr("Dear sir, please send it.")

(* The decoded, tag-free text of the content, and the starts of the        *)
(* leftmost match of every reply-header and footer pattern in it.          *)
Untagged == IF Falsy(content) THEN "" ELSE untagged(content.s)

MatchStarts ==
    { FirstMatch(reply_patterns[k], Untagged) : k \in 1..Len(reply_patterns) }
    \cup { FirstMatch(footer_patterns[k], Untagged) : k \in 1..Len(footer_patterns) }

EarliestCut ==
    LET starts == MatchStarts \ {0}
    IN  IF starts = {} THEN Untagged ELSE SubSeq(Untagged, 1, LeastOr0(starts) - 1)

(* C16: the output of extract_fresh_message is the prefix of the decoded,  *)
(* tag-free text that ends right before the earliest match of any          *)
(* reply-header or footer pattern in that text (the whole text when none   *)
(* matches), with white space collapsed and trimmed: cutting pattern after *)
(* pattern ends where cutting once at the earliest match does.             *)
C16_CutAtEarliestMatch ==
    Freshened => fresh = PyStr(strip(collapse(EarliestCut)))

(* A footer, which is applied late, matches before a reply header, which   *)
(* is applied early, and text is left in front of both.                    *)
C16_Witness ==
    /\ pc = "fresh"
    /\ FirstMatch(footer_patterns[3], Untagged) > 1
    /\ FirstMatch(reply_patterns[2], Untagged) > FirstMatch(footer_patterns[3], Untagged)
    /\ fresh.s # ""
    /\ fresh = PyStr(strip(collapse(EarliestCut)))

(* The maximal runs of characters that are not white space, in order.      *)
RECURSIVE TokensOf(_)
TokensOf(s) ==
    LET t == lstrip(s)
        sp == LeastOr0({k \in 1..Len(t) : IsSpace(CharAt(t, k))})
    IN  IF t = "" THEN <<>>
        ELSE IF sp = 0 THEN <<t>>
        ELSE <<SubSeq(t, 1, sp - 1)>> \o TokensOf(SubSeq(t, sp, Len(t)))

RECURSIVE JoinSpace(_)
JoinSpace(tokens) ==
    IF tokens = <<>> THEN ""
    ELSE IF Len(tokens) = 1 THEN tokens[1]
    ELSE tokens[1] \o " " \o JoinSpace(Tail(tokens))

(* The decoded content with every tag replaced by a space.                 *)
Detagged == IF Falsy(content) THEN "" ELSE sub_tags(html_unescape(content.s))

----------------------------------------------------------------------------
(* Claim on the case of letters, checked under SpecCase.                   *)

(* The indices where the two texts differ.                                 *)
ChangedAt == {k \in 1..Len(text.s) : CharAt(recased.s, k) # CharAt(text.s, k)}

(* C18, as claimed: a text and the same text with any letters changed      *)
(* between upper and lower case get the same record.                       *)
C18_CaseInsensitive ==
    pc = "recased" => res_recased = res

(* C18, amended: the same when the letters changed are ASCII letters (A-Z, *)
(* a-z), in keywords and in thread markers alike.                          *)
C18_AsciiCaseInsensitive ==
    (pc = "recased" /\ \A k \in ChangedAt : CharAt(text.s, k) # LongS)
        => res_recased = res

(* The last marker and the last turn are written in the other case: the    *)
(* turn is still found and its delay keyword still decides.                *)
C18_Witness ==
    /\ pc = "recased"
    /\ text = PyStr("Thread1- thank you so much\n\nThread2- still waiting")
    /\ In("tHREAD2- STILL WAITING", recased.s)
    /\ res = RuleTable[6]
    /\ res_recased = res

----------------------------------------------------------------------------
(* Claim on extract_full_threads, checked under SpecZoho.                  *)

(* The thread the loop is at, and the step that has fetched it.            *)
Current == thread_list.data[ti + 1]

Fetched == pc = "threads" /\ ti' = ti + 1 /\ Current.fetch = "ok"

IsCustomer(t) ==
    contact_name # "" /\ In(lower(contact_name), lower(AuthorOf(t)))

(* C19, as claimed: a fetched thread is put in the inbound list, as its    *)
(* fresh message, exactly when the contact name is not empty and occurs in *)
(* the author's name in any case of letters; every other fetched thread is *)
(* put in the outbound list, as its full text; with an empty contact name  *)
(* the inbound list stays empty.                                           *)
C19_EveryThreadRouted ==
    /\ [][ Fetched =>
             IF IsCustomer(Current)
             THEN /\ inbound' = Append(inbound, extract_fresh_message(ContentOf(Current)))
                  /\ outbound' = outbound
             ELSE /\ outbound' = Append(outbound, extract_full_text(ContentOf(Current)))
                  /\ inbound' = inbound ]_vars
    /\ [](contact_name = "" => (inbound = <<>> /\ inbound_list = <<>>))

(* The step has fetched the thread and read its author.                    *)
Handled == Fetched /\ ~author_raises(Current)

(* C19, amended: the same for the fetched threads whose author is read     *)
(* without an exception and whose normalized text is longer than 5         *)
(* characters; such a thread with a shorter text goes to neither list.     *)
C19_LongThreadsRouted ==
    /\ [][ Handled =>
             LET msg == extract_fresh_message(ContentOf(Current))
                 txt == extract_full_text(ContentOf(Current))
             IN  IF IsCustomer(Current)
                 THEN /\ inbound' = IF Len(msg) > 5 THEN Append(inbound, msg) ELSE inbound
                      /\ outbound' = outbound
                 ELSE /\ outbound' = IF Len(txt) > 5 THEN Append(outbound, txt) ELSE outbound
                      /\ inbound' = inbound ]_vars
    /\ [](contact_name = "" => (inbound = <<>> /\ inbound_list = <<>>))

(* The contact name is in capitals and the author's name is not: the       *)
(* customer's mail came back without its signature, the desk's answer with *)
(* its quoted header.                                                      *)
C19_Witness ==
    /\ pc = "returned"
    /\ contact_name = "RAVI KUMAR"
    /\ Len(thread_list.data) = 2
    /\ thread_list.data[1].author = PyStr("Ravi Kumar")
    /\ inbound_list = <<"Refund please">>
    /\ outbound_list = <<"We will check From: desk">>

----------------------------------------------------------------------------
(* Claim on the loop of main, checked under SpecMain.                      *)

(* The rows the loop has gone through.                                     *)
Passed == 1..index

StatusAtStart(i) == input_rows[i].processing_status

(* The row is as it was when the run started and cost no call on the       *)
(* client.                                                                 *)
Untouched(i) == df[i] = input_rows[i] /\ calls[i] = 0

(* C20, as claimed: a row whose processing_status is not empty when the    *)
(* run starts is skipped, with no call on the client and no column         *)
(* changed.                                                                *)
C20_NonEmptyStatusSkipped ==
    \A i \in Passed :
        (notna(StatusAtStart(i)) /\ str(StatusAtStart(i)) # "") => Untouched(i)

(* C20, amended: the same for a row whose processing_status is not blank   *)
(* when the run starts (not a missing value, and not empty once trimmed),  *)
(* up to the end of the run and in the file written last; a status of      *)
(* white space only does not protect the row.                              *)
C20_NonBlankStatusSkipped ==
    /\ \A i \in Passed :
          (notna(StatusAtStart(i)) /\ strip(str(StatusAtStart(i))) # "") => Untouched(i)
    /\ pc = "saved" =>
          \A i \in 1..Len(input_rows) :
              (notna(StatusAtStart(i)) /\ strip(str(StatusAtStart(i))) # "")
                  => saved.rows[i] = input_rows[i]

(* A Completed row with a ticket number stands behind a new row: the new   *)
(* row was classified, the Completed row is as it was and cost no call.    *)
C20_Witness ==
    /\ pc = "saved"
    /\ Len(df) = 2
    /\ StatusAtStart(1) = PyNaN
    /\ df[1].processing_status = PyStr("Completed")
    /\ calls[1] = 4
    /\ StatusAtStart(2) = PyStr("Completed")
    /\ notna(input_rows[2].ticket)
    /\ Untouched(2)
    /\ saved.rows[2] = input_rows[2]

----------------------------------------------------------------------------
(* Claims on the loop of main and its saves, checked under SpecMain.       *)

Rows == 1..Len(df)

StatusOf(i) == df[i].processing_status

FailedStatuses == { PyStr("Failed - " \o e) : e \in FailMessages }

(* An exception was raised in the turn of row i: by a call of main's try   *)
(* block, or by the fetch of one thread inside extract_full_threads.       *)
ReachedMain(i) == events[i] \cap {"lookup raised", "list raised", "save raised"} # {}

RaisedIn(i) == ReachedMain(i) \/ "thread raised" \in events[i]

Finished == pc \in {"saved", "crashed"}

(* C21, as claimed: an exception raised while a row is processed inside    *)
(* the try block (ticket search, thread fetch, classification, checkpoint  *)
(* save) never ends the run: the row gets the status "Failed - <message>", *)
(* the later rows are gone through and the final save is attempted.        *)
C21_ExceptionNeverEndsRun ==
    /\ pc # "aborted"
    /\ \A i \in Rows : RaisedIn(i) => StatusOf(i) \in FailedStatuses
    /\ (pc = "rows" /\ index = Len(df)) => ENABLED FinalSave
    /\ Finished => \A i \in Rows : events[i] # {}

(* C21, amended: an exception of class Exception that reaches the try      *)
(* block of main (from the ticket search, the fetch of the thread list or  *)
(* the checkpoint save) does not end the run: the row gets the status      *)
(* "Failed - <message>", the loop goes on to the next row and the final    *)
(* save is attempted.  The run ends before the final save only by an       *)
(* exception outside class Exception; an exception raised by the fetch of  *)
(* one thread stays inside extract_full_threads and the row is completed.  *)
C21_CaughtExceptionMarksRow ==
    /\ \A i \in Rows :
          (ReachedMain(i) /\ "not caught" \notin events[i])
              => StatusOf(i) \in FailedStatuses /\ i <= index
    /\ \A i \in Rows :
          ("thread raised" \in events[i] /\ ~ReachedMain(i))
              => StatusOf(i) \in {PyStr("Completed"), PyStr("Completed - No Inbound")}
    /\ pc = "aborted" => "not caught" \in events[index + 1]
    /\ (pc = "rows" /\ index < Len(df)) => ENABLED Iterate
    /\ (pc = "rows" /\ index = Len(df)) => ENABLED FinalSave
    /\ Finished => \A i \in Rows : events[i] # {}

(* The search of the first row raised and the row is marked Failed; the    *)
(* second row was classified after it and the file was saved at the end.   *)
C21_Witness ==
    /\ pc = "saved"
    /\ Len(df) = 2
    /\ events[1] = {"lookup raised"}
    /\ StatusOf(1) = PyStr("Failed - timeout")
    /\ "counted" \in events[2]
    /\ StatusOf(2) = PyStr("Completed")
    /\ saved.rows = df

(* The rows counted in processed_count among the first i rows.             *)
Counted(i) == { j \in 1..i : "counted" \in events[j] }

(* The counted rows whose results are not in the output file.              *)
NotInFile == { i \in Counted(Len(df)) : ~saved.written \/ saved.rows[i] # df[i] }

(* The row whose turn tried the last checkpoint save, 0 when none did.     *)
LastTried ==
    LET tried == { i \in Rows : "save tried" \in events[i] }
    IN  IF tried = {} THEN 0 ELSE CHOOSE i \in tried : \A j \in tried : j <= i

(* A turn tries the save exactly when it counts its row and the count      *)
(* becomes a multiple of 5.                                                *)
SaveTriedWhenDue ==
    \A i \in Rows :
        "save tried" \in events[i]
            <=> ("counted" \in events[i] /\ Cardinality(Counted(i)) % 5 = 0)

LoopDone == pc # "aborted" /\ index = Len(df)

NonEmptyStatus(v) == notna(v) /\ str(v) # ""

RunStatuses ==
    { PyStr("Completed"), PyStr("Completed - No Inbound"), PyStr("Skipped - No Ticket"),
      PyStr("Failed - Ticket Not Found") } \cup FailedStatuses

(* C23: when the loop has run to completion every row has a non-empty      *)
(* processing_status, and every row processed in this run has one of       *)
(* "Completed", "Completed - No Inbound", "Skipped - No Ticket",           *)
(* "Failed - Ticket Not Found" and "Failed - <message>".                   *)
C23_EveryRowHasStatus ==
    LoopDone =>
        \A i \in Rows :
            /\ NonEmptyStatus(StatusOf(i))
            /\ "skipped" \notin events[i] => StatusOf(i) \in RunStatuses

(* The loop is done over a row without a ticket number and a row whose     *)
(* ticket has no thread of the contact: both have their status.            *)
C23_Witness ==
    /\ LoopDone
    /\ Len(df) = 2
    /\ ~NonEmptyStatus(StatusAtStart(1)) /\ ~NonEmptyStatus(StatusAtStart(2))
    /\ StatusOf(1) = PyStr("Skipped - No Ticket")
    /\ StatusOf(2) = PyStr("Completed - No Inbound")

(* The five sentiment columns of a row.                                    *)
SentimentColumns(row) ==
    <<row.sentiment_score, row.sentiment_label, row.emotion,
      row.complaint_risk_level, row.ticket_category>>

(* The five fields of a record of analyze_sentiment, as the columns hold   *)
(* them.                                                                   *)
AsColumns(r) ==
    <<PyFloat(r.sentiment_score), PyStr(r.sentiment_label), PyStr(r.emotion),
      PyStr(r.complaint_risk_level), PyStr(r.ticket_category)>>

(* The status of row i was written by this run's classification step.      *)
SetInRun(i, status) == "counted" \in events[i] /\ StatusOf(i) = PyStr(status)

(* C24: a row whose processing_status this run set to "Completed" has an   *)
(* Inbound Thread that is not blank and its five sentiment columns are the *)
(* five fields of analyze_sentiment on that text; a row with "Completed -  *)
(* No Inbound" has its five sentiment columns as they were before the run. *)
C24_CompletedCarriesAnalysis ==
    \A i \in Rows :
        /\ SetInRun(i, "Completed") =>
              /\ df[i].inbound_thread.type = "str"
              /\ strip(df[i].inbound_thread.s) # ""
              /\ SentimentColumns(df[i])
                     = AsColumns(analyze_sentiment(df[i].inbound_thread).value)
        /\ SetInRun(i, "Completed - No Inbound") =>
              SentimentColumns(df[i]) = SentimentColumns(input_rows[i])

(* The customer's mail of the first row was classified; the second row,    *)
(* whose status cell held a space, has no inbound text and keeps the       *)
(* Negative label it had.                                                  *)
C24_Witness ==
    /\ Len(df) = 2
    /\ index = 2
    /\ SetInRun(1, "Completed")
    /\ df[1].inbound_thread = PyStr("Thread1- Refund please")
    /\ SentimentColumns(df[1]) # SentimentColumns(input_rows[1])
    /\ SetInRun(2, "Completed - No Inbound")
    /\ df[2].sentiment_label = PyStr("Negative")

(* The status of row i was set to a "Failed - ..." value by this run.      *)
FailedInRun(i) ==
    /\ events[i] # {}
    /\ "skipped" \notin events[i]
    /\ StatusOf(i) \in FailedStatuses \cup {PyStr("Failed - Ticket Not Found")}

(* C25: a row whose processing_status this run set to a "Failed - ..."     *)
(* value has none of its five sentiment columns written by this run, and   *)
(* it was not counted as processed: a status "Completed" once set is not   *)
(* overwritten by "Failed".                                                *)
C25_FailedRowCarriesNoResult ==
    \A i \in Rows :
        FailedInRun(i) =>
            /\ SentimentColumns(df[i]) = SentimentColumns(input_rows[i])
            /\ "counted" \notin events[i]

----------------------------------------------------------------------------
(* Claim on zoho_get, checked under SpecGet.                               *)

GetsAt == { k \in 1..Len(log) : log[k].ev = "get" }

RegensAt == { k \in 1..Len(log) : log[k].ev = "regen" }

FirstGet == CHOOSE k \in GetsAt : \A j \in GetsAt : k <= j

SecondGet == CHOOSE k \in GetsAt : k # FirstGet

RegensBetween == { k \in RegensAt : FirstGet < k /\ k < SecondGet }

(* At most two requests; a second one only after a 401, with one           *)
(* regeneration of the token between the two; and no regeneration after a  *)
(* first answer that is not 401, so at most the one of get_valid_token.    *)
AtMostOneRetry ==
    /\ Cardinality(GetsAt) <= 2
    /\ Cardinality(GetsAt) = 2 =>
          /\ log[FirstGet].status = 401
          /\ Cardinality(RegensBetween) = 1
    /\ (Cardinality(GetsAt) >= 1 /\ log[FirstGet].status # 401) =>
          /\ Cardinality(GetsAt) = 1
          /\ Cardinality(RegensAt) <= 1
          /\ \A k \in RegensAt : k < FirstGet

(* C26, as claimed: a call of zoho_get makes at most two GET requests; the *)
(* second only when the first returned 401, after exactly one regeneration *)
(* of the token, and its body is returned whatever its status; when the    *)
(* first answer is not 401 there is no regeneration but the one            *)
(* get_valid_token may have done.                                          *)
C26_SecondBodyReturned ==
    /\ AtMostOneRetry
    /\ (Cardinality(GetsAt) = 2 /\ log[SecondGet].status # 0) =>
          result = Return(log[SecondGet].body)

(* C26, amended: the same, and the body of the second answer is returned   *)
(* whatever its status when it decodes as JSON; when it does not, the call *)
(* raises the decoding error, again without another request.               *)
C26_SecondBodyReturnedIfJson ==
    /\ AtMostOneRetry
    /\ (Cardinality(GetsAt) = 2 /\ log[SecondGet].status # 0) =>
          \/ result = Return(log[SecondGet].body)
          \/ log[SecondGet].body = "<html>" /\ result = Raise("JSONDecodeError")

(* The token had passed its expiry, the first request got 401 with the     *)
(* token made for it, the second got 401 again and its body came back.     *)
C26_Witness ==
    /\ ncalls = 2
    /\ Len(log) = 4
    /\ log[1].ev = "regen" /\ log[2].ev = "get" /\ log[3].ev = "regen" /\ log[4].ev = "get"
    /\ log[2].status = 401
    /\ log[4].status = 401
    /\ result = Return("{2}")

----------------------------------------------------------------------------
(* Claim on the lists extract_full_threads returns, checked under          *)
(* SpecZoho.                                                               *)

(* The places of the threads in the list of the API.                       *)
Places == 1..Len(thread_list.data)

ThreadAt(k) == thread_list.data[k]

(* The normalized text of the thread at place k: the fresh message of a    *)
(* customer's thread, the full text of any other.                          *)
NormalizedAt(k) ==
    IF IsCustomer(ThreadAt(k)) THEN extract_fresh_message(ContentOf(ThreadAt(k)))
    ELSE extract_full_text(ContentOf(ThreadAt(k)))

(* The places in S from the last to the first.                             *)
LastFirst(S) ==
    [j \in 1..Cardinality(S) |-> CHOOSE k \in S : Cardinality({ m \in S : m > k }) = j - 1]

(* The texts of the threads at the places in S, the last thread first.     *)
TextsLastFirst(S) == [j \in 1..Cardinality(S) |-> NormalizedAt(LastFirst(S)[j])]

(* The call has returned the lists of a thread list with data.             *)
ListsReturned == pc = "returned" /\ thread_list.has_data

(* The two lists are the texts of the threads at the places in Kept, the   *)
(* customer's in the inbound list and the others in the outbound list,     *)
(* each list from the last thread of the API to the first.                 *)
ListsAre(Kept) ==
    /\ inbound_list = TextsLastFirst({ k \in Kept : IsCustomer(ThreadAt(k)) })
    /\ outbound_list = TextsLastFirst({ k \in Kept : ~IsCustomer(ThreadAt(k)) })

(* C27, as claimed: the two lists together hold exactly the threads whose  *)
(* fetch did not raise and whose normalized text is longer than 5          *)
(* characters, each once and in one list, each list in the reverse of the  *)
(* order of the API.                                                       *)
C27_FetchedLongThreadsKept ==
    ListsReturned =>
        ListsAre({ k \in Places : ThreadAt(k).fetch = "ok" /\ Len(NormalizedAt(k)) > 5 })

(* C27, amended: the same for the threads for which neither the fetch nor  *)
(* the reading of the author raised; a thread for which one of them raised *)
(* is in neither list and leaves the others where they are.                *)
C27_HandledLongThreadsKept ==
    ListsReturned =>
        ListsAre({ k \in Places : /\ ThreadAt(k).fetch = "ok"
                                  /\ ~author_raises(ThreadAt(k))
                                  /\ Len(NormalizedAt(k)) > 5 })

(* A thread with a long text and a null author, then the customer's mail:  *)
(* the lists hold the mail only.                                           *)
C27_Witness ==
    /\ ListsReturned
    /\ contact_name = "Ravi"
    /\ Len(thread_list.data) = 2
    /\ ThreadAt(1).author = JsonNull
    /\ ThreadAt(1).fetch = "ok"
    /\ Len(NormalizedAt(1)) > 5
    /\ ThreadAt(2).author = PyStr("Ravi Kumar")
    /\ inbound_list = <<"Refund please">>
    /\ outbound_list = <<>>

----------------------------------------------------------------------------
(* Claim on the reach of the rules of analyze_sentiment, checked under     *)
(* Spec.                                                                   *)

(* The outcomes analyze_sentiment returns on the texts of Inputs.          *)
OutcomesReturned ==
    { out.value : out \in { o \in { analyze_sentiment(v) : v \in Inputs } : o.raised = "none" } }

(* C28: for each of the nine rules there is a text for which               *)
(* analyze_sentiment returns the outcome of that rule, and a text for      *)
(* which it returns the default: no rule is shadowed by the rules tested   *)
(* before it.  A call that returns gives one of these ten outcomes.        *)
C28_EveryOutcomeReturned ==
    /\ \A r \in 1..Len(RuleTable) : RuleTable[r] \in OutcomesReturned
    /\ DefaultRow \in OutcomesReturned
    /\ Returned => res \in Range(RuleTable) \cup {DefaultRow}

(* The last rule of the chain has answered: a text with a fraud keyword    *)
(* that no rule before it matches.                                         *)
C28_Witness ==
    /\ Returned
    /\ Matching = {9}
    /\ res = RuleTable[9]

----------------------------------------------------------------------------
(* Claim on the sessions of the dashboard, checked under SpecDash.         *)

(* The step is a run of the script (the Excel file is as it was).          *)
ScriptRuns == excel_file' = excel_file

(* session_state.logged is true when the run of the step starts: the run   *)
(* is not the first of a new session and the session is logged in.         *)
LoggedAtStart == last_run'.event # "open" /\ session.logged = "True"

(* The run of the step read the Excel file or showed a page.               *)
LoadsOrRenders == last_run'.loaded \/ last_run'.rendered # "none"

(* The credentials of the run of the step are those of a stored user.      *)
CredentialsMatch ==
    /\ last_run'.event = "login"
    /\ last_run'.username \in { "admin", "viewer" }
    /\ last_run'.password =
           (IF last_run'.username = "admin" THEN "admin123" ELSE "viewer123")

(* C29: over all sequences of logins, navigation clicks and logouts, the   *)
(* data is loaded and a page is rendered only in a run in which            *)
(* session_state.logged is true; logged becomes true only in a run in      *)
(* which authenticate succeeds, on a stored username with the password     *)
(* whose SHA-256 is the stored hash; Logout clears the whole session state *)
(* and the run after it shows the login form, with no data and no page in  *)
(* the session state.                                                      *)
C29_OnlyLoggedSessionsSeeData ==
    /\ [][ (ScriptRuns /\ LoadsOrRenders) => LoggedAtStart ]_vars
    /\ [][ (session.logged # "True" /\ session'.logged = "True")
              => (CredentialsMatch /\ last_run'.auth = "ok") ]_vars
    /\ [][ (ScriptRuns /\ last_run'.event = "logout")
              => (session' = NoSession /\ rerun') ]_vars
    /\ [][ (ScriptRuns /\ last_run.event = "logout")
              => /\ screen' = "login"
                 /\ session'.logged = "False"
                 /\ session'.df = "absent"
                 /\ session'.page = "absent"
                 /\ ~LoadsOrRenders ]_vars
    /\ [](screen \in { "dashboard", "no data" } => session.logged = "True")

(* A user who was logged in has pressed Logout: the session state is empty *)
(* and the script is about to run again.                                   *)
C29_Witness ==
    /\ pc = "dash"
    /\ last_run.event = "logout"
    /\ session = NoSession
    /\ rerun
    /\ screen = "none"

====
